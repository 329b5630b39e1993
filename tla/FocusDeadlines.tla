---------------------------- MODULE FocusDeadlines ----------------------------
(***************************************************************************)
(* Focus on a task until a deadline.  The task tool writes focused_at and  *)
(* focus_deadline and publishes TaskFocusChanged; focus_alarms turns the   *)
(* event into rows of scheduled_fires; alarm_side_effects ends the focus   *)
(* when the expire row has fired; focus_watcher, a poll of its own, ends   *)
(* every overdue focus it finds.  Nothing but the event ties the rows to   *)
(* the focus, and the two that end one know only the task's id.            *)
(*                                                                         *)
(* A deadline is modelled by the time left until it, everywhere it is      *)
(* written down.  The scheduler (TemporalScheduler) is one action that     *)
(* takes a due row and publishes AlarmFired.  Time entries, the activity   *)
(* log and notifications are left out.                                     *)
(***************************************************************************)
EXTENDS Integers, Sequences, FiniteSets, Functions

CONSTANTS
    Tasks,
    Callers,     \* calls of the task tool that may be in progress at a time
    MaxSlots,    \* max_focus_slots
    Hours,       \* focus_deadline_hours, in ticks
    WarnHours,   \* WARNING_HOURS, in ticks
    MaxChanges,  \* bound: focus and unfocus calls that change a row
    MaxFaults    \* bound: failed statements, lost events, dropped calls, restarts

ASSUME FocusAssumption ==
    /\ "none" \notin Tasks
    /\ MaxSlots \in Nat /\ Hours \in Nat \ {0}
    /\ WarnHours \subseteq Nat \ {0}
    /\ MaxChanges \in Nat /\ MaxFaults \in Nat

VARIABLES
    status,    \* [Tasks -> {"open", "done", "deleted"}]
    focus,     \* [Tasks -> Left]: time left until focus_deadline; None, no focus
    call,      \* [Callers -> changes]: what a call has still to publish
    changes,   \* TaskFocusChanged events focus_alarms has not received
    handling,  \* the change focus_alarms is at, and the rows it has to insert
    fires,     \* the focus rows of scheduled_fires that have not fired
    fired,     \* AlarmFired events alarm_side_effects has not received
    expired,   \* rows of its list focus_watcher has still to end
    nth,       \* history: [Tasks -> Nat], how often a task was focused
    disturbed, \* history: tasks whose rows or expiry a fault or a race upset
    faults     \* history: faults so far

history == <<nth, disturbed, faults>>
vars == <<status, focus, call, changes, handling, fires, fired, expired, history>>

None == -1
Left == 0..Hours
NoTask == "none"

\* A TaskFocusChanged event; nth tells which focus of the task it is about.
Change == [task : Tasks, left : Left \cup {None}, nth : 0..MaxChanges]
Idle == [task |-> NoTask, left |-> None, nth |-> 0]
Fire == [task : Tasks, kind : {"warning", "expire"}, hour : WarnHours \cup {0},
         left : Left, nth : 0..MaxChanges]
Ended == [task : Tasks, nth : 0..MaxChanges]
NotHandling == [change |-> Idle, stage |-> "idle", rows |-> {}]

\* The types of all variables.
TypeOK ==
    /\ status \in [Tasks -> {"open", "done", "deleted"}]
    /\ focus \in [Tasks -> Left \cup {None}]
    /\ call \in [Callers -> Change \cup {Idle}]
    /\ changes \in Seq(Change)
    /\ handling \in [change : Change \cup {Idle}, stage : {"idle", "cancel", "insert"},
                     rows : SUBSET Fire]
    /\ handling.stage # "idle" => handling.change # Idle
    /\ fires \subseteq Fire
    /\ fired \in Seq(Ended)
    /\ expired \subseteq Ended
    /\ nth \in [Tasks -> 0..MaxChanges]
    /\ disturbed \subseteq Tasks
    /\ faults \in 0..MaxFaults

\* Tasks exist, none has been focused.
Init ==
    /\ status = [t \in Tasks |-> "open"]
    /\ focus = [t \in Tasks |-> None]
    /\ call = [c \in Callers |-> Idle]
    /\ changes = <<>> /\ handling = NotHandling
    /\ fires = {} /\ fired = <<>> /\ expired = {}
    /\ nth = [t \in Tasks |-> 0] /\ disturbed = {} /\ faults = 0

Upset(ts) == disturbed' = disturbed \cup ts

\* A fault, counted; it may upset the tasks ts.
Fault(ts) ==
    /\ faults < MaxFaults
    /\ faults' = faults + 1
    /\ Upset(ts)
    /\ UNCHANGED nth
-----------------------------------------------------------------------------
(* The task tool.                                                          *)

Focused == {t \in Tasks : focus[t] # None}
InCall(t) == \E c \in Callers : call[c].task = t

\* A call that changes a task while another has still to publish a change of
\* the same task races with it: the events may come in either order.
Races(t) == IF InCall(t) THEN {t} ELSE {}

\* handle_focus up to its UPDATE, which counts the slots and finds the task
\* unfocused, or the call fails.
Focus(c, t) ==
    /\ call[c] = Idle
    /\ status[t] # "deleted" /\ focus[t] = None
    /\ Cardinality(Focused) < MaxSlots
    /\ nth[t] < MaxChanges
    /\ focus' = [focus EXCEPT ![t] = Hours]
    /\ nth' = [nth EXCEPT ![t] = @ + 1]
    /\ call' = [call EXCEPT ![c] = [task |-> t, left |-> Hours, nth |-> nth[t] + 1]]
    /\ Upset(Races(t))
    /\ UNCHANGED <<status, changes, handling, fires, fired, expired, faults>>

\* handle_unfocus up to its UPDATE, which finds the task focused.
Unfocus(c, t) ==
    /\ call[c] = Idle
    /\ focus[t] # None
    /\ focus' = [focus EXCEPT ![t] = None]
    /\ call' = [call EXCEPT ![c] = [task |-> t, left |-> None, nth |-> nth[t]]]
    /\ Upset(Races(t))
    /\ UNCHANGED <<status, changes, handling, fires, fired, expired, nth, faults>>

\* The rest of both handlers: the change is published.
Publish(c) ==
    /\ call[c] # Idle
    /\ changes' = Append(changes, call[c])
    /\ call' = [call EXCEPT ![c] = Idle]
    /\ UNCHANGED <<status, focus, handling, fires, fired, expired, history>>

\* A time entry fails to be written, or the call times out, before it has
\* published the change it made.
CallFails(c) ==
    /\ call[c] # Idle
    /\ Fault({call[c].task})
    /\ call' = [call EXCEPT ![c] = Idle]
    /\ UNCHANGED <<status, focus, changes, handling, fires, fired, expired>>

\* handle_complete and handle_reopen leave the focus as it is.
CompleteOrReopen(t) ==
    /\ status[t] # "deleted"
    /\ status' = [status EXCEPT ![t] = IF @ = "open" THEN "done" ELSE "open"]
    /\ UNCHANGED <<focus, call, changes, handling, fires, fired, expired, history>>

\* handle_delete publishes nothing: the rows of scheduled_fires stay.
Delete(t) ==
    /\ status[t] # "deleted"
    /\ status' = [status EXCEPT ![t] = "deleted"]
    /\ focus' = [focus EXCEPT ![t] = None]
    /\ Upset({t})
    /\ UNCHANGED <<call, changes, handling, fires, fired, expired, nth, faults>>
-----------------------------------------------------------------------------
(* focus_alarms, one event at a time.                                      *)

Receive ==
    /\ handling.stage = "idle" /\ changes # <<>>
    /\ handling' = [change |-> Head(changes), stage |-> "cancel", rows |-> {}]
    /\ changes' = Tail(changes)
    /\ UNCHANGED <<status, focus, call, fires, fired, expired, history>>

RowsOf(t) == {f \in fires : f.task = t}

\* The rows a focus asks for: a warning for every hour that is still ahead
\* and the expiry.
Rows(t, left, n) ==
    IF left <= 0 THEN {}
    ELSE {[task |-> t, kind |-> "warning", hour |-> h, left |-> left - h, nth |-> n] :
            h \in {h \in WarnHours : h < left}}
         \cup {[task |-> t, kind |-> "expire", hour |-> 0, left |-> left, nth |-> n]}

Pending(t) ==
    \/ InCall(t)
    \/ \E c \in Range(changes) : c.task = t

\* The change is the last of its task and the task is as it says.
LastWord(c) == ~Pending(c.task) /\ c.nth = nth[c.task] /\ c.left = focus[c.task]

\* The end of a cancel: on to the inserts, if there are any.  A task is no
\* longer upset once its last change is handled, unless the deadline passed
\* before, for then no expiry is scheduled.
Prepared(c, rows) ==
    /\ handling' = IF rows = {} THEN NotHandling
                   ELSE [change |-> c, stage |-> "insert", rows |-> rows]
    /\ disturbed' = IF c.left = 0 THEN disturbed \cup {c.task}
                    ELSE IF LastWord(c) THEN disturbed \ {c.task}
                    ELSE disturbed

\* Mutant: the rows of an earlier focus are not cancelled.
KeepRows ==
    /\ handling.stage = "cancel"
    /\ LET c == handling.change IN Prepared(c, Rows(c.task, c.left, c.nth))
    /\ UNCHANGED <<status, focus, call, changes, fires, fired, expired, nth, faults>>

\* cancel_by_prefix takes every row of the task that has not fired; now is read.
CancelRows ==
    /\ handling.stage = "cancel"
    /\ LET c == handling.change IN
         /\ fires' = fires \ RowsOf(c.task)
         /\ Prepared(c, Rows(c.task, c.left, c.nth))
    /\ UNCHANGED <<status, focus, call, changes, fired, expired, nth, faults>>

\* The cancel fails: the event is given up.
CancelFails ==
    /\ handling.stage = "cancel"
    /\ Fault({handling.change.task})
    /\ handling' = NotHandling
    /\ UNCHANGED <<status, focus, call, changes, fires, fired, expired>>

\* The rows are inserted one by one, the earliest hour first.
NextRow(r) ==
    /\ handling.stage = "insert" /\ r \in handling.rows
    /\ \A s \in handling.rows : s.hour <= r.hour
    /\ handling' = IF handling.rows = {r} THEN NotHandling
                   ELSE [handling EXCEPT !.rows = @ \ {r}]

InsertRow(r) ==
    /\ NextRow(r)
    /\ fires' = fires \cup {r}
    /\ UNCHANGED <<status, focus, call, changes, fired, expired, history>>

\* A failed insert is logged, the next row tried.
InsertFails(r) ==
    /\ NextRow(r)
    /\ Fault({r.task})
    /\ UNCHANGED <<status, focus, call, changes, fires, fired, expired>>

\* A receiver that lags loses its oldest event.
LoseChange ==
    /\ changes # <<>>
    /\ Fault({Head(changes).task})
    /\ changes' = Tail(changes)
    /\ UNCHANGED <<status, focus, call, handling, fires, fired, expired>>
-----------------------------------------------------------------------------
(* The end of a focus: the expire row or the poll.                         *)

\* The scheduler fires a due row; only focus_expire has an effect here.
FireRow(f) ==
    /\ f \in fires /\ f.left = 0
    /\ fires' = fires \ {f}
    /\ fired' = IF f.kind = "expire"
                  THEN Append(fired, [task |-> f.task, nth |-> f.nth]) ELSE fired
    /\ UNCHANGED <<status, focus, call, changes, handling, expired, history>>

\* TaskRepo::unfocus by one that knows the task's id only.  A focus that is not
\* over is upset: its rows stay.
End(t) ==
    /\ focus' = [focus EXCEPT ![t] = None]
    /\ Upset(IF focus[t] > 0 THEN {t} ELSE {})

\* Mutant: completed tasks are skipped, as the poll does.
AlarmSkipsDone ==
    /\ fired # <<>>
    /\ fired' = Tail(fired)
    /\ IF status[Head(fired).task] = "done" THEN UNCHANGED <<focus, disturbed>>
       ELSE End(Head(fired).task)
    /\ UNCHANGED <<status, call, changes, handling, fires, expired, nth, faults>>

\* alarm_side_effects: focus_expire ends the focus the task has now.
AlarmEnds ==
    /\ fired # <<>>
    /\ fired' = Tail(fired)
    /\ End(Head(fired).task)
    /\ UNCHANGED <<status, call, changes, handling, fires, expired, nth, faults>>

\* Its statement fails, or its receiver lags: the event is gone.
AlarmFails ==
    /\ fired # <<>>
    /\ Fault({Head(fired).task})
    /\ fired' = Tail(fired)
    /\ UNCHANGED <<status, focus, call, changes, handling, fires, expired>>

\* Mutant: every focus on the list is ended, over or not.
PollAll ==
    /\ expired = {}
    /\ expired' = {[task |-> t, nth |-> nth[t]] : t \in {t \in Focused : status[t] = "open"}}
    /\ UNCHANGED <<status, focus, call, changes, handling, fires, fired, history>>

\* focus_watcher: list_focused, less what is completed or not over.
Poll ==
    /\ expired = {}
    /\ expired' = {[task |-> t, nth |-> nth[t]] :
                     t \in {t \in Focused : status[t] = "open" /\ focus[t] = 0}}
    /\ UNCHANGED <<status, focus, call, changes, handling, fires, fired, history>>

\* TaskFocusExpired is published and the focus the task has now is ended.
WatcherEnds(e) ==
    /\ e \in expired
    /\ expired' = expired \ {e}
    /\ End(e.task)
    /\ UNCHANGED <<status, call, changes, handling, fires, fired, nth, faults>>

\* Its statement fails; the next poll finds the focus again.
WatcherFails(e) ==
    /\ e \in expired
    /\ Fault({})
    /\ expired' = expired \ {e}
    /\ UNCHANGED <<status, focus, call, changes, handling, fires, fired>>
-----------------------------------------------------------------------------
(* Time and restarts.                                                      *)

\* Mutant: a deadline that is over goes on.
LaterUnclipped(left, d) == IF left = None THEN None ELSE left - d

Later(left, d) == IF left = None THEN None ELSE IF left > d THEN left - d ELSE 0
Aged(set, d) == {[f EXCEPT !.left = Later(@, d)] : f \in set}

\* Time passes for every deadline.
Tick ==
    /\ focus' = [t \in Tasks |-> Later(focus[t], 1)]
    /\ call' = [c \in Callers |-> [call[c] EXCEPT !.left = Later(@, 1)]]
    /\ changes' = [i \in DOMAIN changes |-> [changes[i] EXCEPT !.left = Later(@, 1)]]
    /\ handling' = [handling EXCEPT !.change.left = Later(@, 1), !.rows = Aged(@, 1)]
    /\ fires' = Aged(fires, 1)
    /\ UNCHANGED <<status, fired, expired, history>>

\* The tasks of which something was only in memory.
InMemory == {t \in Tasks :
    \/ Pending(t)
    \/ handling.change.task = t
    \/ \E e \in Range(fired) : e.task = t}

\* The process ends and is started after d ticks; of the rows that have become
\* due its recovery marks some as missed.
Restart(d, missed) ==
    /\ missed \subseteq {f \in Aged(fires, d) : f.left = 0}
    /\ Fault(InMemory \cup {f.task : f \in missed})
    /\ fires' = Aged(fires, d) \ missed
    /\ focus' = [t \in Tasks |-> Later(focus[t], d)]
    /\ call' = [c \in Callers |-> Idle]
    /\ changes' = <<>> /\ handling' = NotHandling
    /\ fired' = <<>> /\ expired' = {}
    /\ UNCHANGED status
-----------------------------------------------------------------------------
Next ==
    \/ \E c \in Callers, t \in Tasks : Focus(c, t) \/ Unfocus(c, t)
    \/ \E c \in Callers : Publish(c) \/ CallFails(c)
    \/ \E t \in Tasks : CompleteOrReopen(t) \/ Delete(t)
    \/ Receive \/ CancelRows \/ CancelFails \/ LoseChange
    \/ \E r \in handling.rows : InsertRow(r) \/ InsertFails(r)
    \/ \E f \in fires : FireRow(f)
    \/ AlarmEnds \/ AlarmFails
    \/ Poll
    \/ \E e \in expired : WatcherEnds(e) \/ WatcherFails(e)
    \/ Tick
    \/ \E d \in Left : \E missed \in SUBSET Aged(fires, d) : Restart(d, missed)

Spec == Init /\ [][Next]_vars

\* The loops go on while the process runs: interval ticks, receivers are woken,
\* the scheduler fires what is due.  Neither calls nor time are fair.
Fairness ==
    /\ WF_vars(Poll)
    /\ WF_vars(\E e \in expired : WatcherEnds(e))
    /\ WF_vars(AlarmEnds)
    /\ WF_vars(\E f \in fires : FireRow(f))

FairSpec == Spec /\ Fairness
-----------------------------------------------------------------------------
\* Nothing of the task is on its way from the tool to its rows.
AtRest(t) == ~Pending(t) /\ handling.change.task # t

Settled(t) == AtRest(t) /\ t \notin disturbed

\* Once the last change of a task is handled, and no fault or race came between,
\* its rows in scheduled_fires are those of its focus: each warning and the
\* expiry still ahead is there, none of an earlier focus is, due or not.  The
\* last change handled repairs whatever went wrong before it.  A task that is
\* upset may have the rows of the wrong focus, or some of them, but whatever
\* was lost, raced or restarted its rows are never those of two focuses.
RowsMatchFocus ==
    /\ \A t \in Tasks : Settled(t) =>
        /\ {f \in RowsOf(t) : f.left > 0} = Rows(t, focus[t], nth[t])
        /\ \A f \in RowsOf(t) : f.nth = nth[t]
    /\ \A f, g \in fires : f.task = g.task => f.nth = g.nth

\* The expiry and the poll end a focus that is over, or one that was set after
\* the other focus of the task whose end they had in hand; they never cut
\* short the focus they meant.
EndsOnlyItsOwn ==
    [][\A t \in Tasks :
         (/\ focus[t] > 0 /\ focus'[t] = None
          /\ call' = call /\ status' = status)
         => \E e \in Range(fired) \cup expired : e.task = t /\ e.nth < nth[t]]_vars

\* A focus past its deadline ends and gives its slot back: that of an open task
\* whatever was lost on the way, by the poll; that of a completed task, which the
\* poll leaves alone, by the expire row, as long as nothing of the task was lost.
OverdueEnds ==
    \A t \in Tasks, s \in {"open", "done"} :
        LET Waits == focus[t] = 0 /\ status[t] = s /\ (s = "done" => Settled(t))
        IN  Waits ~> ~Waits
=============================================================================
