--------------------------- MODULE ProviderFailover ---------------------------
(***************************************************************************)
(* ProviderManager: concurrent LLM calls try the primary provider with     *)
(* retries, fall back to a second one, and share a circuit breaker whose   *)
(* deadline survives a restart in a table of one row.                      *)
(*                                                                         *)
(* A deadline is modelled by the time left until it: Tick takes one unit   *)
(* off every deadline, in memory, in the row and in the tasks that write   *)
(* it; with nothing left it is over.  That both clocks of the code, the    *)
(* monotonic and the wall clock, advance alike is assumed.                 *)
(*                                                                         *)
(* A call may be dropped by its caller wherever it awaits.  Providers are  *)
(* outcomes; what is said to the user about degradation is left out.       *)
(***************************************************************************)
EXTENDS Naturals, FiniteSets

CONSTANTS
    Calls,       \* calls that may be in progress at a time
    Threshold,   \* failure_threshold of the CircuitBreakerConfig
    ResetTime,   \* reset_timeout_secs, in ticks
    HasFallback, \* is a fallback provider configured?
    MaxCuts,     \* bound: calls dropped while they open the circuit
    MaxSaves     \* bound: writes of one deadline pending when a call begins

ASSUME ProviderAssumption ==
    /\ Threshold \in Nat \ {0} /\ ResetTime \in Nat
    /\ HasFallback \in BOOLEAN
    /\ MaxCuts \in Nat /\ MaxSaves \in Nat \ {0}

VARIABLES
    up,         \* is the process running?
    persisting, \* has init_storage installed the on_circuit_open callback?
    stage,      \* [Calls -> Stages]: how far each call is
    attempt,    \* [Calls -> 1..3]: the attempt the call is at
    deadline,   \* [Calls -> Nat]: the deadline a call is about to write
    failures,   \* failure_count
    openFor,    \* circuit_open_until
    savedFor,   \* open_until_utc of the row of circuit_breaker_state
    saves,      \* [deadlines -> Nat]: spawned tasks that will write the row
    streak,     \* history: failures of the primary since its last success,
                \* counted up to Threshold
    cuts,       \* history: calls dropped while they opened the circuit
    overdue,    \* history: was one cut before it reset failure_count?
    unrecorded  \* history: has the deadline in memory missed the row?

history == <<streak, cuts, overdue, unrecorded>>
breaker == <<failures, openFor>>
table == <<savedFor, saves>>
vars == <<up, persisting, stage, attempt, deadline, breaker, table, history>>

(* idle      the call has not begun or has returned                        *)
(* primary   it awaits the primary        backoff  it sleeps after a 429   *)
(* opening   it counted a failure at the threshold, its deadline in hand   *)
(* opened    it has written circuit_open_until                             *)
(* announce  it has reset failure_count                                    *)
(* fallback  it awaits the fallback       fbsleep  it sleeps after a 429   *)
(* direct    the circuit was open: it awaits the fallback, once            *)
Stages == {"idle", "primary", "backoff", "opening", "opened", "announce",
           "fallback", "fbsleep", "direct"}
Opening == {"opening", "opened", "announce"}
Deadlines == 0..ResetTime

\* retry_with_backoff: a rate-limited primary is asked three times.
PrimaryAttempts == 3

\* try_fallback: a rate-limited fallback is asked twice.
FallbackAttempts == 2

\* The types of all variables.
TypeOK ==
    /\ up \in BOOLEAN /\ persisting \in BOOLEAN
    /\ stage \in [Calls -> Stages]
    /\ attempt \in [Calls -> 1..PrimaryAttempts]
    /\ deadline \in [Calls -> Deadlines]
    /\ failures \in Nat
    /\ openFor \in Deadlines /\ savedFor \in Deadlines
    /\ saves \in [Deadlines -> Nat]
    /\ streak \in 0..Threshold
    /\ cuts \in 0..MaxCuts /\ overdue \in BOOLEAN /\ unrecorded \in BOOLEAN

NoSaves == [d \in Deadlines |-> 0]

\* Nothing of an earlier process is left but the row.
Init ==
    /\ up = FALSE /\ persisting = FALSE
    /\ stage = [c \in Calls |-> "idle"]
    /\ attempt = [c \in Calls |-> 1]
    /\ deadline = [c \in Calls |-> 0]
    /\ failures = 0 /\ openFor = 0
    /\ savedFor = 0 /\ saves = NoSaves
    /\ streak = 0 /\ cuts = 0 /\ overdue = FALSE /\ unrecorded = FALSE

Goes(c, s) == stage' = [stage EXCEPT ![c] = s]
Least(a, b) == IF a <= b THEN a ELSE b
-----------------------------------------------------------------------------
(* A call of chat or chat_stream.                                          *)

\* is_circuit_open: is some time left until the deadline?
CircuitOpen == openFor > 0

PendingSaves == {d \in Deadlines : saves[d] > 0}

\* The call begins: past an open circuit when there is a fallback.
Enter(c) ==
    /\ up /\ stage[c] = "idle"
    /\ \A d \in PendingSaves : saves[d] < MaxSaves
    /\ Goes(c, IF CircuitOpen /\ HasFallback THEN "direct" ELSE "primary")
    /\ attempt' = [attempt EXCEPT ![c] = 1]
    /\ UNCHANGED <<up, persisting, deadline, breaker, table, history>>

\* Mutant: a success leaves the count as it is.
PrimaryServesUncounted(c) ==
    /\ stage[c] = "primary"
    /\ Goes(c, "idle")
    /\ streak' = 0
    /\ UNCHANGED <<up, persisting, attempt, deadline, breaker, table,
                   cuts, overdue, unrecorded>>

\* The primary answers: reset_failures.
PrimaryServes(c) ==
    /\ stage[c] = "primary"
    /\ Goes(c, "idle")
    /\ failures' = 0
    /\ streak' = 0
    /\ overdue' = FALSE
    /\ UNCHANGED <<up, persisting, attempt, deadline, openFor, table, cuts, unrecorded>>

\* What a call does when the primary has failed for good: try_fallback.
AfterPrimary == IF HasFallback THEN "fallback" ELSE "idle"

\* The first half of record_failure: the failure is counted and, from the
\* threshold on, the deadline is computed.
CountFailure(c) ==
    /\ failures' = failures + 1
    /\ streak' = Least(streak + 1, Threshold)
    /\ attempt' = [attempt EXCEPT ![c] = 1]
    /\ IF failures + 1 >= Threshold
         THEN Goes(c, "opening") /\ deadline' = [deadline EXCEPT ![c] = ResetTime]
         ELSE Goes(c, AfterPrimary) /\ UNCHANGED deadline
    /\ UNCHANGED <<up, persisting, openFor, table, cuts, overdue, unrecorded>>

\* The primary fails with any error but a rate limit.
PrimaryFails(c) == stage[c] = "primary" /\ CountFailure(c)

\* The primary limits the rate: the last attempt counts as a failure.
PrimaryLimited(c) ==
    /\ stage[c] = "primary"
    /\ IF attempt[c] < PrimaryAttempts
         THEN /\ Goes(c, "backoff")
              /\ UNCHANGED <<up, persisting, attempt, deadline, breaker, table, history>>
         ELSE CountFailure(c)

\* The sleep ends.  The circuit is not looked at again.
BackoffEnds(c) ==
    /\ stage[c] = "backoff"
    /\ Goes(c, "primary")
    /\ attempt' = [attempt EXCEPT ![c] = @ + 1]
    /\ UNCHANGED <<up, persisting, deadline, breaker, table, history>>
-----------------------------------------------------------------------------
(* The second half of record_failure, one await after the other.           *)

\* circuit_open_until gets the deadline the call computed before it waited
\* for the lock, even one older than what is there.
WriteDeadline(c) ==
    /\ stage[c] = "opening"
    /\ openFor' = deadline[c]
    /\ Goes(c, "opened")
    /\ unrecorded' = FALSE
    /\ UNCHANGED <<up, persisting, attempt, deadline, failures, table, streak, cuts, overdue>>

\* Mutant: failure_count stays at the threshold.
ClearNothing(c) ==
    /\ stage[c] = "opened"
    /\ Goes(c, "announce")
    /\ UNCHANGED <<up, persisting, attempt, deadline, breaker, table, history>>

\* circuit_open_until_utc, which nothing reads, gets the deadline as well,
\* and failure_count is reset, with the failures of others in it.
ClearCount(c) ==
    /\ stage[c] = "opened"
    /\ Goes(c, "announce")
    /\ failures' = 0
    /\ overdue' = FALSE
    /\ UNCHANGED <<up, persisting, attempt, deadline, openFor, table, streak, cuts, unrecorded>>

\* The on_circuit_open callback spawns a task that will save the deadline.
Announce(c) ==
    /\ stage[c] = "announce"
    /\ Goes(c, AfterPrimary)
    /\ IF persisting
         THEN /\ saves' = [saves EXCEPT ![deadline[c]] = @ + 1]
              /\ UNCHANGED unrecorded
         ELSE unrecorded' = TRUE /\ UNCHANGED saves
    /\ UNCHANGED <<up, persisting, attempt, deadline, breaker, savedFor, streak, cuts, overdue>>
-----------------------------------------------------------------------------
(* The fallback, whose answers never touch the breaker.                    *)

\* The fallback answers, or fails with any error but a rate limit, or with
\* any error at all in chat_stream, which does not ask it again.
FallbackEnds(c) ==
    /\ stage[c] = "fallback"
    /\ Goes(c, "idle")
    /\ UNCHANGED <<up, persisting, attempt, deadline, breaker, table, history>>

\* The fallback limits the rate.
FallbackLimited(c) ==
    /\ stage[c] = "fallback"
    /\ Goes(c, IF attempt[c] < FallbackAttempts THEN "fbsleep" ELSE "idle")
    /\ UNCHANGED <<up, persisting, attempt, deadline, breaker, table, history>>

FallbackSleepEnds(c) ==
    /\ stage[c] = "fbsleep"
    /\ Goes(c, "fallback")
    /\ attempt' = [attempt EXCEPT ![c] = @ + 1]
    /\ UNCHANGED <<up, persisting, deadline, breaker, table, history>>

\* The bypass ends, whatever the fallback answered: there is no retry.
DirectEnds(c) ==
    /\ stage[c] = "direct"
    /\ Goes(c, "idle")
    /\ UNCHANGED <<up, persisting, attempt, deadline, breaker, table, history>>

\* The caller drops the call at an await.  One that was opening the circuit
\* leaves the rest of record_failure undone.
Abandon(c) ==
    /\ up /\ stage[c] # "idle"
    /\ Goes(c, "idle")
    /\ IF stage[c] \in Opening
         THEN /\ cuts < MaxCuts
              /\ cuts' = cuts + 1
              /\ overdue' = (overdue \/ stage[c] # "announce")
              /\ unrecorded' = (unrecorded \/ stage[c] # "opening")
         ELSE UNCHANGED <<cuts, overdue, unrecorded>>
    /\ UNCHANGED <<up, persisting, attempt, deadline, breaker, table, streak>>
-----------------------------------------------------------------------------
(* Persistence, time and the process.                                      *)

\* Mutant: a row that is there stays (INSERT OR IGNORE).
SaveOnce(d) ==
    /\ saves[d] > 0
    /\ saves' = [saves EXCEPT ![d] = @ - 1]
    /\ savedFor' = IF savedFor > 0 THEN savedFor ELSE d
    /\ UNCHANGED <<up, persisting, stage, attempt, deadline, breaker, history>>

\* A spawned save is done.  The tasks run in any order, so an older deadline
\* may replace a newer one.
Save(d) ==
    /\ saves[d] > 0
    /\ saves' = [saves EXCEPT ![d] = @ - 1]
    /\ savedFor' = d
    /\ unrecorded' = (unrecorded \/ d < savedFor)
    /\ UNCHANGED <<up, persisting, stage, attempt, deadline, breaker, streak, cuts, overdue>>

\* A save fails, and is only logged.
SaveFails(d) ==
    /\ saves[d] > 0
    /\ saves' = [saves EXCEPT ![d] = @ - 1]
    /\ unrecorded' = TRUE
    /\ UNCHANGED <<up, persisting, stage, attempt, deadline, breaker, savedFor,
                   streak, cuts, overdue>>

Earlier(d) == IF d = 0 THEN 0 ELSE d - 1

\* Mutant: the deadline of an open circuit is not compared with the clock.
TickWhileClosed ==
    /\ ~CircuitOpen /\ savedFor > 0
    /\ savedFor' = Earlier(savedFor)
    /\ UNCHANGED <<up, persisting, stage, attempt, deadline, breaker, saves, history>>

\* One unit of time passes, for a process that is down as well.
Tick ==
    /\ \/ openFor > 0 \/ savedFor > 0
       \/ \E d \in PendingSaves : d > 0
       \/ \E c \in Calls : deadline[c] > 0
    /\ openFor' = Earlier(openFor)
    /\ savedFor' = Earlier(savedFor)
    /\ deadline' = [c \in Calls |-> Earlier(deadline[c])]
    /\ saves' = [d \in Deadlines |->
                    (IF d < ResetTime THEN saves[d + 1] ELSE 0)
                  + (IF d = 0 THEN saves[0] ELSE 0)]
    /\ UNCHANGED <<up, persisting, stage, attempt, failures, history>>

\* The process ends at any point: calls, counter and spawned saves are gone.
ProcessCrash ==
    /\ up
    /\ up' = FALSE /\ persisting' = FALSE
    /\ stage' = [c \in Calls |-> "idle"]
    /\ deadline' = [c \in Calls |-> 0]
    /\ failures' = 0 /\ openFor' = 0 /\ saves' = NoSaves
    /\ streak' = 0 /\ overdue' = FALSE /\ unrecorded' = FALSE
    /\ UNCHANGED <<attempt, savedFor, cuts>>

\* Mutant: the remaining time is counted from the next full timeout.
LaunchAfresh ==
    /\ ~up
    /\ up' = TRUE /\ persisting' = TRUE
    /\ openFor' = IF savedFor > 0 THEN savedFor + ResetTime ELSE 0
    /\ UNCHANGED <<stage, attempt, deadline, failures, table, history>>

\* init_storage: unless the table cannot be made, the row is loaded, if it
\* can be, an unexpired deadline is restored and the callback installed.
Launch ==
    /\ ~up
    /\ up' = TRUE
    /\ \E tableMade, loaded \in BOOLEAN :
         /\ persisting' = tableMade
         /\ openFor' = IF tableMade /\ loaded THEN savedFor ELSE 0
    /\ UNCHANGED <<stage, attempt, deadline, failures, table, history>>
-----------------------------------------------------------------------------
\* A step of a call that is under way.
Progress(c) ==
    \/ PrimaryServes(c) \/ PrimaryFails(c) \/ PrimaryLimited(c) \/ BackoffEnds(c)
    \/ WriteDeadline(c) \/ ClearCount(c) \/ Announce(c)
    \/ FallbackEnds(c) \/ FallbackLimited(c) \/ FallbackSleepEnds(c) \/ DirectEnds(c)

Saving == \E d \in Deadlines : Save(d) \/ SaveFails(d)

Next ==
    \/ \E c \in Calls : Enter(c) \/ Progress(c) \/ Abandon(c)
    \/ Saving \/ Tick \/ ProcessCrash \/ Launch

Spec == Init /\ [][Next]_vars

\* Providers answer, sleeps end, spawned tasks run and time passes; nothing
\* makes a user call, a process crash or a caller drop its call.
Fairness ==
    /\ \A c \in Calls : WF_vars(Progress(c))
    /\ WF_vars(Saving) /\ WF_vars(Tick)

FairSpec == Spec /\ Fairness
-----------------------------------------------------------------------------
(* Properties.                                                             *)

\* The circuit opens for nothing less than failure_threshold consecutive
\* failures of the primary, however many calls count them, reset them and
\* open the circuit at once: a call in record_failure past its test of the
\* count has seen that many, or a success came after it, and the fallback's
\* failures are none of them.
OpensOnlyAtThreshold == [][
    \A c \in Calls : stage[c] # "opening" /\ stage'[c] = "opening" => streak' = Threshold]_vars

\* The failure count does not rest at the threshold with nobody to act on
\* it: a call that will open the circuit and reset the count is under way,
\* or one was dropped there.  Else a single later failure would open it.
ThresholdIsActedOn ==
    failures >= Threshold =>
        overdue \/ \E c \in Calls : stage[c] \in {"opening", "opened"}

\* A restart would find the breaker open for as long as it is now: its
\* deadline is in the row, on its way there or with a call yet to announce
\* it, unless that call was dropped, the write failed, there was no callback
\* or a save of an older deadline came last.
OpenOutlivesRestart ==
    CircuitOpen =>
        \/ unrecorded \/ savedFor >= openFor
        \/ \E d \in PendingSaves : d >= openFor
        \/ \E c \in Calls : stage[c] \in {"opened", "announce"} /\ deadline[c] >= openFor

\* Calls that were under way when the circuit opened may open it again, and
\* a restart restores it, but it does not stay open for ever: the primary is
\* tried again.
PrimaryTriedAgain == CircuitOpen ~> ~CircuitOpen
=============================================================================
