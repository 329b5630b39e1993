------------------------ MODULE NotificationDelivery ------------------------
(***************************************************************************)
(* NotificationDispatcher composed with the scheduler that feeds it.  The  *)
(* scheduler is FireContract, the specification TemporalScheduler was      *)
(* proved to implement: alarms and the releases of held notifications are  *)
(* fires, and each announcement is an AlarmFired event in the dispatcher's *)
(* receiver of the bus.                                                    *)
(*                                                                         *)
(* The dispatcher is one task that handles one event at a time.  pc is the *)
(* await it stands at:                                                     *)
(*   "down"          the process is not running                            *)
(*   "recv"          select! on the bus                                    *)
(*   "hold_row"      HeldReleaseService::hold, insert is next              *)
(*   "hold_fire"     the held row is in, its release fire is next          *)
(*   "find_held"     handle_held_release, list_pending_before is next      *)
(*   "try_insert"    dispatch_one, try_insert is next                      *)
(*   "deliver"       the log row is ours, attempt number `attempt` is next *)
(*   "record_ack"    deliver returned Ok, with or without showing anything *)
(*   "record_error"  the last attempt failed                               *)
(*   "mark_released" all channels of a held row were dispatched            *)
(* A held row and its companion fire are one value of Releases.            *)
(***************************************************************************)
EXTENDS Integers, Sequences

CONSTANTS
    Alarms,            \* ids of the fires that are notifications
    Releases,          \* ids of held rows and of their held_release fires
    Channels,          \* channel names
    Registered,        \* the channels in the ChannelRegistry
    Silent,            \* those of them that return Ok and show nothing: see Shows
    DefaultChannels,   \* config: notifications.default_channels
    AlarmPayloads,     \* the payloads producers schedule
    OverrideForUrgent, \* config: quiet_hours.override_for_urgent_tasks
    MaxAttempts,       \* RetryPolicy::max_attempts
    MaxCrashes,        \* bound: process crashes
    MaxErrors,         \* bound: database errors
    MaxOverruns,       \* bound: events lost to a full bus
    None

\* channels: the names channel_mask stands for, in the order of
\* mask_to_names; <<>> for the mask 0.
AlarmPayload == [priority : {"urgent", None}, priority_override : {"urgent", None},
                 channels : Seq(Channels)]

ASSUME DispatcherAssumption ==
    /\ Alarms \cap Releases = {}
    /\ None \notin Alarms \cup Releases \cup Channels
    /\ Registered \subseteq Channels /\ Silent \subseteq Registered
    /\ DefaultChannels \in Seq(Channels)
    /\ AlarmPayloads \subseteq AlarmPayload
    /\ OverrideForUrgent \in BOOLEAN
    /\ MaxAttempts \in Nat \ {0}
    /\ MaxCrashes \in Nat /\ MaxErrors \in Nat /\ MaxOverruns \in Nat

VARIABLES
    phase, heard, heardNow, \* FireContract
    payload,   \* [Alarms -> AlarmPayload or None]: the alarm's payload_json
    queue,     \* the events the dispatcher's receiver has not seen yet
    hours,     \* the quiet hours of the config: see Hours
    quiet,     \* is the clock inside the quiet window?
    log,       \* [Alarms \X Channels -> LogStates]: notification_log
    held,      \* [Releases -> HeldRow or None]: held_notifications
    pc,
    cur,       \* the fire_id of the event in hand, or None
    subject,   \* the alarm_id of the payload in hand, or None
    chan,      \* the channel being dispatched, or None
    todo,      \* the channels after it
    attempt,
    row,       \* the held row being written or released, or None
    \* History: what users saw, what faults hit.
    shown,     \* [Alarms \X Channels -> Nat]: how often a channel showed it
    lost,      \* fires whose last announcement was not handled to the end
    faulted,   \* pairs whose dispatch was cut by a crash or a database error
    crashes, errors, overruns

contractVars == <<phase, heard, heardNow>>
tables == <<payload, log, held>>
locals == <<pc, cur, subject, chan, todo, attempt, row>>
history == <<shown, lost, faulted>>
faultVars == <<crashes, errors, overruns>>
vars == <<contractVars, tables, queue, hours, quiet, locals, history, faultVars>>

Fires == INSTANCE FireContract WITH FireIds <- Alarms \cup Releases

Pairs == Alarms \X Channels

\* "none": no policy; "malformed": a policy whose HH:MM does not parse.
Hours == {"none", "window", "malformed"}

\* error and ack_at_ms: a row with neither is "sent".
LogStates == {"absent", "sent", "acked", "error"}

HeldRow == [alarm_id : Alarms, channels : Seq(Channels), released : BOOLEAN]

PCs == {"down", "recv", "hold_row", "hold_fire", "find_held", "try_insert",
        "deliver", "record_ack", "record_error", "mark_released"}

\* The types of all variables.
TypeOK ==
    /\ phase \in [Alarms \cup Releases -> Fires!Phases]
    /\ heard \subseteq Alarms \cup Releases
    /\ heardNow \subseteq Alarms \cup Releases
    /\ payload \in [Alarms -> AlarmPayload \cup {None}]
    /\ queue \in Seq(Alarms \cup Releases)
    /\ hours \in Hours
    /\ quiet \in BOOLEAN
    /\ log \in [Pairs -> LogStates]
    /\ held \in [Releases -> HeldRow \cup {None}]
    /\ pc \in PCs
    /\ cur \in Alarms \cup Releases \cup {None}
    /\ subject \in Alarms \cup {None}
    /\ chan \in Channels \cup {None}
    /\ todo \in Seq(Channels)
    /\ attempt \in 0..MaxAttempts
    /\ row \in Releases \cup {None}
    /\ shown \in [Pairs -> Nat]
    /\ lost \subseteq Alarms \cup Releases
    /\ faulted \subseteq Pairs
    /\ crashes \in 0..MaxCrashes
    /\ errors \in 0..MaxErrors
    /\ overruns \in 0..MaxOverruns

Init ==
    /\ Fires!Init
    /\ payload = [a \in Alarms |-> None]
    /\ queue = <<>>
    /\ hours \in Hours
    /\ quiet \in BOOLEAN
    /\ log = [p \in Pairs |-> "absent"]
    /\ held = [r \in Releases |-> None]
    /\ pc = "down"
    /\ cur = None /\ subject = None /\ chan = None /\ todo = <<>>
    /\ attempt = 0 /\ row = None
    /\ shown = [p \in Pairs |-> 0]
    /\ lost = {} /\ faulted = {}
    /\ crashes = 0 /\ errors = 0 /\ overruns = 0

InQueue(i) == \E k \in 1..Len(queue) : queue[k] = i

-----------------------------------------------------------------------------
(* The scheduler and the producers of alarms, as far as FireContract tells.*)

SchedulerFrame == UNCHANGED <<log, held, hours, quiet, locals, shown, faulted, faultVars>>

\* A producer schedules an alarm: FireStore::schedule.
AlarmScheduled(a, p) ==
    /\ pc # "down"
    /\ Fires!Accept(a)
    /\ payload' = [payload EXCEPT ![a] = p]
    /\ UNCHANGED <<queue, lost>>
    /\ SchedulerFrame

\* A producer withdraws alarms.  Nobody cancels the prefix "held:".
AlarmsWithdrawn(S) ==
    /\ pc # "down"
    /\ S # {}
    /\ Fires!Withdraw(S)
    /\ UNCHANGED <<payload, queue, lost>>
    /\ SchedulerFrame

\* begin_firing
FireTaken(i) ==
    /\ pc # "down"
    /\ Fires!Take(i)
    /\ UNCHANGED <<payload, queue, lost>>
    /\ SchedulerFrame

\* publish_alarm, by a pass or by recovery.
FireAnnounced(i) ==
    /\ pc # "down"
    /\ Fires!Announce(i)
    /\ queue' = Append(queue, i)
    /\ lost' = lost \ {i}
    /\ UNCHANGED payload
    /\ SchedulerFrame

\* mark_fired or mark_suppressed.  A stale fire settles unannounced.
FireSettled(i) ==
    /\ pc # "down"
    /\ Fires!Settle(i)
    /\ lost' = IF i \in heard THEN lost ELSE lost \cup {i}
    /\ UNCHANGED <<payload, queue>>
    /\ SchedulerFrame

\* The clock enters or leaves the quiet window.
ClockMoves ==
    /\ hours = "window"
    /\ quiet' = ~quiet
    /\ UNCHANGED <<contractVars, tables, queue, hours, locals, history, faultVars>>

-----------------------------------------------------------------------------
(* The dispatcher.                                                         *)

ResolveChannels(p) ==
    IF p.channels = <<>> THEN DefaultChannels ELSE p.channels

\* The dispatcher goes back to the bus.
Idle == /\ pc' = "recv"
        /\ cur' = None /\ subject' = None /\ chan' = None /\ todo' = <<>>
        /\ attempt' = 0 /\ row' = None

\* The loop over channels: to the first of cs, or past its end.  e is the
\* event in hand, a the payload's alarm_id, r the held row being released.
Dispatch(cs, e, a, r) ==
    IF cs # <<>>
      THEN /\ pc' = "try_insert"
           /\ cur' = e /\ subject' = a /\ row' = r
           /\ chan' = Head(cs) /\ todo' = Tail(cs) /\ attempt' = 1
      ELSE IF r # None
      THEN /\ pc' = "mark_released"
           /\ cur' = e /\ subject' = a /\ row' = r
           /\ chan' = None /\ todo' = <<>> /\ attempt' = 0
      ELSE Idle

\* Mutant: dispatch_one's early return ends the handler.
FirstChannelOnly == Idle

\* dispatch_one returns to the loop.
NextChannel == Dispatch(todo, cur, subject, row)

\* The event in hand is given up.
GiveUp == /\ Idle
          /\ lost' = lost \cup {cur}

DispatcherFrame == UNCHANGED <<payload, hours, quiet, crashes, overruns>>

\* The quiet hours gate of handle_alarm_fired, when its times parse.  It
\* reads `priority`, which is not the priority_override producers send.
Holds(p) == /\ hours = "window" /\ quiet
            /\ ~ (p.priority = "urgent" /\ OverrideForUrgent)

\* rx.recv() of an alarm, up to the first await of handle_alarm_fired.
ReceiveAlarm ==
    /\ pc = "recv" /\ queue # <<>> /\ Head(queue) \in Alarms
    /\ queue' = Tail(queue)
    /\ LET a == Head(queue) IN
         \/ /\ hours = "malformed"          \* is_in_quiet_hours(now)?
            /\ Idle
            /\ lost' = lost \cup {a}
         \/ /\ hours # "malformed" /\ Holds(payload[a])
            /\ \E r \in Releases : /\ held[r] = None /\ phase[r] = "absent"
                                   /\ row' = r
            /\ pc' = "hold_row" /\ cur' = a /\ subject' = a
            /\ UNCHANGED <<chan, todo, attempt, lost>>
         \/ /\ hours # "malformed" /\ ~ Holds(payload[a])
            /\ Dispatch(ResolveChannels(payload[a]), a, a, None)
            /\ UNCHANGED lost
    /\ UNCHANGED <<contractVars, log, held, shown, faulted, errors>>
    /\ DispatcherFrame

\* hold: INSERT INTO held_notifications.
HoldRow ==
    /\ pc = "hold_row"
    /\ held' = [held EXCEPT ![row] =
                  [alarm_id |-> subject, channels |-> ResolveChannels(payload[subject]),
                   released |-> FALSE]]
    /\ pc' = "hold_fire"
    /\ UNCHANGED <<contractVars, log, queue, cur, subject, chan, todo, attempt, row,
                   history, errors>>
    /\ DispatcherFrame

\* Mutant: the release fire is forgotten.
HoldWithoutFire ==
    /\ pc = "hold_fire"
    /\ Idle
    /\ UNCHANGED <<contractVars, log, held, queue, history, errors>>
    /\ DispatcherFrame

\* hold: FireStore::schedule of the held_release fire.
HoldFire ==
    /\ pc = "hold_fire"
    /\ Fires!Accept(row)
    /\ Idle
    /\ UNCHANGED <<log, held, queue, history, errors>>
    /\ DispatcherFrame

\* rx.recv() of a held_release.
ReceiveRelease ==
    /\ pc = "recv" /\ queue # <<>> /\ Head(queue) \in Releases
    /\ queue' = Tail(queue)
    /\ pc' = "find_held" /\ cur' = Head(queue)
    /\ UNCHANGED <<contractVars, log, held, subject, chan, todo, attempt, row,
                   history, errors>>
    /\ DispatcherFrame

\* Mutant: the row is marked before its channels are dispatched.
MarkThenDispatch ==
    /\ pc = "find_held"
    /\ IF held[cur] # None /\ ~ held[cur].released
         THEN /\ Dispatch(held[cur].channels, cur, held[cur].alarm_id, cur)
              /\ held' = [held EXCEPT ![cur].released = TRUE]
         ELSE Idle /\ UNCHANGED held
    /\ UNCHANGED <<contractVars, log, queue, history, errors>>
    /\ DispatcherFrame

\* handle_held_release: the pending row with the event's held_id, if any.
FindHeld ==
    /\ pc = "find_held"
    /\ IF held[cur] # None /\ ~ held[cur].released
         THEN Dispatch(held[cur].channels, cur, held[cur].alarm_id, cur)
         ELSE Idle
    /\ UNCHANGED <<contractVars, log, held, queue, history, errors>>
    /\ DispatcherFrame

\* Mutant: INSERT OR REPLACE, so an old row does not stop the delivery.
InsertOrReplace ==
    /\ pc = "try_insert"
    /\ log' = [log EXCEPT ![<<subject, chan>>] = "sent"]
    /\ IF chan \in Registered
         THEN /\ pc' = "deliver"
              /\ UNCHANGED <<cur, subject, chan, todo, attempt, row>>
         ELSE NextChannel
    /\ UNCHANGED <<contractVars, held, queue, history, errors>>
    /\ DispatcherFrame

\* dispatch_one: try_insert, then the look-up of the channel.
TryInsert ==
    /\ pc = "try_insert"
    /\ IF log[<<subject, chan>>] = "absent"
         THEN log' = [log EXCEPT ![<<subject, chan>>] = "sent"]
         ELSE UNCHANGED log
    /\ IF log[<<subject, chan>>] = "absent" /\ chan \in Registered
         THEN /\ pc' = "deliver"
              /\ UNCHANGED <<cur, subject, chan, todo, attempt, row>>
         ELSE NextChannel
    /\ UNCHANGED <<contractVars, held, queue, history, errors>>
    /\ DispatcherFrame

\* A channel that hands the text to something that shows it.  OutboundChannel
\* sends to the active chat of its channel and returns Ok when there is none;
\* last_active, in which it looks, is made None with the channels, and nothing
\* else ever holds it.  TrayChannel publishes an event that nobody turns into
\* something to see, and returns Ok.
Shows(c) == c \notin Silent

\* ch.deliver(payload) returns Ok.
DeliverOk ==
    /\ pc = "deliver"
    /\ shown' = IF Shows(chan) THEN [shown EXCEPT ![<<subject, chan>>] = @ + 1] ELSE shown
    /\ pc' = "record_ack"
    /\ UNCHANGED <<contractVars, log, held, queue, cur, subject, chan, todo, attempt, row,
                   lost, faulted, errors>>
    /\ DispatcherFrame

\* Mutant: one attempt too many.
DeliverFailsOnceMore ==
    /\ pc = "deliver" /\ Shows(chan)
    /\ IF attempt <= MaxAttempts
         THEN /\ attempt' = attempt + 1
              /\ UNCHANGED pc
         ELSE /\ pc' = "record_error"
              /\ UNCHANGED attempt
    /\ UNCHANGED <<contractVars, log, held, queue, cur, subject, chan, todo, row,
                   history, errors>>
    /\ DispatcherFrame

\* ch.deliver(payload) returns Err: back to it after the delay, or give up.  A
\* channel that drops what it gets never does.
DeliverFails ==
    /\ pc = "deliver" /\ Shows(chan)
    /\ IF attempt < MaxAttempts
         THEN /\ attempt' = attempt + 1
              /\ UNCHANGED pc
         ELSE /\ pc' = "record_error"
              /\ UNCHANGED attempt
    /\ UNCHANGED <<contractVars, log, held, queue, cur, subject, chan, todo, row,
                   history, errors>>
    /\ DispatcherFrame

RecordAck ==
    /\ pc = "record_ack"
    /\ log' = [log EXCEPT ![<<subject, chan>>] = "acked"]
    /\ NextChannel
    /\ UNCHANGED <<contractVars, held, queue, history, errors>>
    /\ DispatcherFrame

\* Mutant: a failure is recorded like a success.
RecordErrorAsAck ==
    /\ pc = "record_error"
    /\ log' = [log EXCEPT ![<<subject, chan>>] = "acked"]
    /\ NextChannel
    /\ UNCHANGED <<contractVars, held, queue, history, errors>>
    /\ DispatcherFrame

RecordError ==
    /\ pc = "record_error"
    /\ log' = [log EXCEPT ![<<subject, chan>>] = "error"]
    /\ NextChannel
    /\ UNCHANGED <<contractVars, held, queue, history, errors>>
    /\ DispatcherFrame

MarkReleased ==
    /\ pc = "mark_released"
    /\ held' = [held EXCEPT ![row].released = TRUE]
    /\ Idle
    /\ UNCHANGED <<contractVars, log, queue, history, errors>>
    /\ DispatcherFrame

-----------------------------------------------------------------------------
(* Faults and restarts.                                                    *)

\* A statement of the dispatcher fails.  Before and after the channels the
\* event is given up; a channel's own errors only skip the channel.
StatementFails ==
    /\ errors < MaxErrors
    /\ errors' = errors + 1
    /\ \/ /\ pc \in {"hold_row", "find_held", "mark_released"}
          /\ GiveUp
          /\ UNCHANGED faulted
       \/ /\ pc = "hold_fire"
          /\ Idle
          /\ lost' = lost \cup {cur, row}
          /\ UNCHANGED faulted
       \/ /\ pc \in {"try_insert", "record_ack", "record_error"}
          /\ NextChannel
          /\ faulted' = faulted \cup {<<subject, chan>>}
          /\ UNCHANGED lost
    /\ UNCHANGED <<contractVars, log, held, queue, shown>>
    /\ DispatcherFrame

\* Other traffic fills the bus: the receiver lags and loses its oldest event.
BusOverruns ==
    /\ overruns < MaxOverruns
    /\ queue # <<>>
    /\ queue' = Tail(queue)
    /\ lost' = lost \cup {Head(queue)}
    /\ overruns' = overruns + 1
    /\ UNCHANGED <<contractVars, tables, hours, quiet, locals, shown, faulted,
                   crashes, errors>>

\* The process dies: the bus and the dispatcher's locals are gone.
ProcessCrash ==
    /\ pc # "down"
    /\ crashes < MaxCrashes
    /\ crashes' = crashes + 1
    /\ pc' = "down"
    /\ cur' = None /\ subject' = None /\ chan' = None /\ todo' = <<>>
    /\ attempt' = 0 /\ row' = None
    /\ queue' = <<>>
    /\ lost' = lost \cup {i \in Alarms \cup Releases : InQueue(i)}
                    \cup ({cur} \ {None})
                    \cup (IF pc = "hold_fire" THEN {row} ELSE {})
    /\ faulted' = IF pc \in {"deliver", "record_ack", "record_error"}
                    THEN faulted \cup {<<subject, chan>>} ELSE faulted
    /\ Fires!Reboot
    /\ UNCHANGED <<tables, hours, quiet, shown, errors, overruns>>

\* NotificationPlugin::init subscribes before the scheduler starts.
Launch ==
    /\ pc = "down"
    /\ pc' = "recv"
    /\ UNCHANGED <<contractVars, tables, queue, hours, quiet, cur, subject, chan, todo,
                   attempt, row, history, faultVars>>

-----------------------------------------------------------------------------
Dispatcher ==
    \/ ReceiveAlarm \/ HoldRow \/ HoldFire
    \/ ReceiveRelease \/ FindHeld
    \/ TryInsert \/ DeliverOk \/ DeliverFails \/ RecordAck \/ RecordError
    \/ MarkReleased

Scheduler ==
    \/ \E a \in Alarms, p \in AlarmPayloads : AlarmScheduled(a, p)
    \/ \E S \in SUBSET Alarms : AlarmsWithdrawn(S)
    \/ \E i \in Alarms \cup Releases : FireTaken(i) \/ FireAnnounced(i) \/ FireSettled(i)

Next == \/ Dispatcher \/ Scheduler
        \/ ClockMoves \/ StatementFails \/ BusOverruns \/ ProcessCrash \/ Launch

Spec == Init /\ [][Next]_vars

\* The runtime polls the dispatcher, and the app is started again.  Nothing
\* is assumed of the scheduler or of the users of the bus.
FairSpec == Spec /\ WF_vars(Dispatcher) /\ WF_vars(Launch)

-----------------------------------------------------------------------------
(* Safety.                                                                 *)

\* An alarm is shown at most once on each channel, although it may be
\* announced again by recovery, held several times and released while its
\* next announcement is under way, and whatever the process survived.  The
\* log row is the only thing that stands in between.
DeliveredAtMostOnce == \A p \in Pairs : shown[p] <= 1

InHand(p) == /\ p = <<subject, chan>>
             /\ pc \in {"deliver", "record_ack", "record_error"}

\* What the log says of a delivery is true as far as the channel tells: an error
\* was not shown, a row without outcome is being dispatched, was cut by a fault
\* or names a channel nobody registered, and an ack was shown exactly once, but
\* only on a channel that shows anything.  A silent channel acks what nobody
\* saw and never reports an error, so there the log is no evidence of anything.
LogTellsTheOutcome ==
    \A p \in Pairs :
        /\ log[p] = "acked" => shown[p] = IF Shows(p[2]) THEN 1 ELSE 0
        /\ log[p] \in {"absent", "error"} => shown[p] = 0
        /\ log[p] = "error" => Shows(p[2])
        /\ log[p] = "sent" => InHand(p) \/ p \in faulted \/ p[2] \notin Registered

Pending(r) == held[r] # None /\ ~ held[r].released

HasWayOut(r) == \/ phase[r] \in {"accepted", "taken"} /\ r \notin heard
                \/ pc = "hold_fire" /\ row = r
                \/ InQueue(r) \/ cur = r
                \/ r \in lost

\* A held notification is never forgotten in silence: as long as its row is
\* pending, its release fire has yet to be announced, or the event is on the way
\* to the dispatcher or in its hands, or the last announcement was lost.  Nothing
\* else looks at pending rows (release_due has no caller).
HeldHasWayOut == \A r \in Releases : Pending(r) => HasWayOut(r)

\* A held row is marked released only when each of its channels has been
\* logged, by this release or by another announcement of the alarm, unless a
\* database error skipped one.
ReleasedWasDispatched ==
    \A r \in Releases :
        held[r] # None /\ held[r].released =>
            \A k \in 1..Len(held[r].channels) :
                LET p == <<held[r].alarm_id, held[r].channels[k]>> IN
                  log[p] # "absent" \/ p \in faulted

(* Liveness.                                                               *)

Logged(a) == LET cs == ResolveChannels(payload[a]) IN
               \A k \in 1..Len(cs) : log[<<a, cs[k]>>] # "absent" \/ <<a, cs[k]>> \in faulted

\* Every alarm whose event reaches the dispatcher's receiver is logged on all
\* its channels or held, however often other events go wrong before it, unless
\* a fault takes the event itself; and a logged delivery, retried or not, gets
\* an outcome.
AnnouncedIsAnswered ==
    /\ \A a \in Alarms :
           InQueue(a) ~> \/ a \in lost
                         \/ payload[a] # None /\ Logged(a)
                         \/ \E r \in Releases : held[r] # None /\ held[r].alarm_id = a
    /\ \A p \in Pairs :
           log[p] = "sent" ~> log[p] # "sent" \/ p \in faulted \/ p[2] \notin Registered
=============================================================================
