---------------------------- MODULE ChampionTrials ----------------------------
(***************************************************************************)
(* The autotuner's champion: the trial whose parameters the program runs   *)
(* with.  It is kept three times: in the orchestrator behind a lock, in    *)
(* the learning state (with the champion it replaced, to go back to), and  *)
(* in the sink that live retrieval reads.  Two cron jobs evaluate it, each *)
(* on a thread of its own, and may promote a trial, count a regression or  *)
(* roll it back; the user may revert it at any time.                       *)
(*                                                                         *)
(* A champion is its trial and its count of regressions.  What the metrics *)
(* say of a trial is a choice; parameters, texts, the decision event and   *)
(* the FSRS write-back are left out.                                       *)
(***************************************************************************)
EXTENDS Integers

CONSTANTS
    Trials,
    Evaluators,  \* runs of the evaluation that may be in progress at a time
    Users,       \* autotuner_revert calls that may be in progress at a time
    NoTrial,     \* trial_id of the default champion
    NoOne,       \* holds the champion lock when nobody does
    Threshold,   \* rollback_threshold
    MaxDays,     \* where consecutive_regression_days saturates (u8)
    MaxReverts,  \* bound: calls of autotuner_revert
    MaxFaults    \* bound: failed statements and restarts

ASSUME ChampionAssumption ==
    /\ NoTrial \notin Trials
    /\ NoOne \notin Evaluators \cup Users
    /\ Evaluators \cap Users = {}
    /\ Threshold \in Nat \ {0} /\ MaxDays \in Nat /\ Threshold <= MaxDays
    /\ MaxReverts \in Nat /\ MaxFaults \in Nat

VARIABLES
    champion,  \* in memory, behind the RwLock
    stored,    \* CHAMPION_KEY of the learning state
    previous,  \* PREVIOUS_CHAMPION_KEY of the learning state
    sink,      \* memory_param_sink: the trial whose parameters retrieval uses
    status,    \* [Trials -> its row in autotuner_trials: none, active, or over,
               \* which is completed or reverted]
    lock,      \* who holds the write lock across an await
    pc, hand,  \* where each evaluation and revert is, and what it holds
    replaced,  \* history: the champion the last completed update replaced
    diverged,  \* history: the last write or read of CHAMPION_KEY failed
    displaced, \* history: the last save of the previous champion failed, or
               \* the process died between it and the save of the new one
    reverts,   \* history: autotuner_revert calls so far
    faults     \* history: faults so far

history == <<replaced, diverged, displaced, reverts, faults>>
vars == <<champion, stored, previous, sink, status, lock, pc, hand, history>>

Procs == Evaluators \cup Users
Champion == [trial : Trials \cup {NoTrial}, days : 0..MaxDays]
Default == [trial |-> NoTrial, days |-> 0]
Absent == [trial |-> NoTrial, days |-> -1]

\* What a process carries over an await: the champion it is to install, the
\* trial it saw as champion, and the verdict on that one.
Hand == [new : Champion, seen : Trials \cup {NoTrial}, regressed : BOOLEAN]
Empty == [new |-> Default, seen |-> NoTrial, regressed |-> FALSE]

\* load_champion: without a row, the default champion.
Loaded(row) == IF row = Absent THEN Default ELSE row

\* The types of all variables.
TypeOK ==
    /\ champion \in Champion
    /\ stored \in Champion \cup {Absent}
    /\ previous \in Champion \cup {Absent}
    /\ sink \in Trials \cup {NoTrial}
    /\ status \in [Trials -> {"none", "active", "over"}]
    /\ lock \in Procs \cup {NoOne}
    /\ pc \in [Procs -> {"idle", "judge", "update", "save", "sink", "verdict",
                         "mark", "restore", "current", "revert"}]
    /\ hand \in [Procs -> Hand]
    /\ replaced \in Champion \cup {Absent}
    /\ diverged \in BOOLEAN /\ displaced \in BOOLEAN
    /\ reverts \in 0..MaxReverts
    /\ faults \in 0..MaxFaults

\* A first start: no row, no trial.
Init ==
    /\ champion = Default
    /\ stored = Absent /\ previous = Absent
    /\ sink = NoTrial
    /\ status = [t \in Trials |-> "none"]
    /\ lock = NoOne
    /\ pc = [p \in Procs |-> "idle"]
    /\ hand = [p \in Procs |-> Empty]
    /\ replaced = Absent
    /\ diverged = FALSE /\ displaced = FALSE
    /\ reverts = 0 /\ faults = 0

Goes(p, from, to) == pc[p] = from /\ pc' = [pc EXCEPT ![p] = to]
Holds(p, h) == hand' = [hand EXCEPT ![p] = h]
Fails == faults < MaxFaults /\ faults' = faults + 1

\* A write of CHAMPION_KEY; a failed one is only logged.
Persist(c) ==
    \/ stored' = c /\ diverged' = FALSE /\ UNCHANGED faults
    \/ Fails /\ diverged' = TRUE /\ UNCHANGED stored

----------------------------------------------------------------------------
(* update_champion, from an evaluation or from autotuner_revert            *)

\* Mutant: the lock is not kept while the champions are saved.
SavePreviousUnlocked(p) ==
    /\ lock = NoOne
    /\ Goes(p, "update", "save")
    /\ \/ previous' = champion /\ displaced' = FALSE /\ UNCHANGED faults
       \/ Fails /\ displaced' = TRUE /\ UNCHANGED previous
    /\ UNCHANGED <<champion, stored, sink, status, lock, hand, replaced, diverged, reverts>>

\* It takes the write lock and saves the champion it finds as the previous.
SavePrevious(p) ==
    /\ lock = NoOne
    /\ Goes(p, "update", "save")
    /\ lock' = p
    /\ \/ previous' = champion /\ displaced' = FALSE /\ UNCHANGED faults
       \/ Fails /\ displaced' = TRUE /\ UNCHANGED previous
    /\ UNCHANGED <<champion, stored, sink, status, hand, replaced, diverged, reverts>>

\* It saves and installs the new champion, and gives the lock back.
Install(p) ==
    /\ Goes(p, "save", "sink")
    /\ Persist(hand[p].new)
    /\ champion' = hand[p].new
    /\ lock' = NoOne
    /\ replaced' = champion
    /\ UNCHANGED <<previous, sink, status, hand, displaced, reverts>>

\* Without the lock it hands the parameters to live retrieval.  A revert ends
\* here; an evaluation has its verdict to apply.
WriteSink(p) ==
    /\ Goes(p, "sink", IF p \in Evaluators THEN "verdict" ELSE "idle")
    /\ sink' = hand[p].new.trial
    /\ Holds(p, [hand[p] EXCEPT !.new = Default, !.seen = NoTrial])
    /\ UNCHANGED <<champion, stored, previous, status, lock, history>>

----------------------------------------------------------------------------
(* run_evaluation                                                          *)

\* An evaluation clones the champion.
Evaluate(e) ==
    /\ lock = NoOne
    /\ Goes(e, "idle", "judge")
    /\ Holds(e, [Empty EXCEPT !.seen = champion.trial])
    /\ UNCHANGED <<champion, stored, previous, sink, status, lock, history>>

\* The metrics of the active trials and of the champion it saw decide: one
\* trial may pass, and a champion with a baseline may have regressed.
Judge(e) ==
    \E pass \in BOOLEAN, regressed \in BOOLEAN, t \in Trials :
        /\ regressed => hand[e].seen # NoTrial
        /\ pass => status[t] = "active"
        /\ Goes(e, "judge", IF pass THEN "update" ELSE "verdict")
        /\ Holds(e, [new |-> IF pass THEN [trial |-> t, days |-> 0] ELSE Default,
                     seen |-> NoTrial, regressed |-> regressed])
        /\ UNCHANGED <<champion, stored, previous, sink, status, lock, history>>

\* A query of the judgement fails and ends the evaluation.
JudgeFails(e) ==
    /\ Fails
    /\ Goes(e, "judge", "idle")
    /\ Holds(e, Empty)
    /\ UNCHANGED <<champion, stored, previous, sink, status, lock,
                   replaced, diverged, displaced, reverts>>

\* The verdict falls on whoever is champion now.
Applies(e, regressed) ==
    lock = NoOne /\ pc[e] = "verdict" /\ hand[e].regressed = regressed

Counted == [champion EXCEPT !.days = IF @ < MaxDays THEN @ + 1 ELSE @]

\* Mutant: the count is kept in memory only.
CountUnsaved(e) ==
    /\ Applies(e, TRUE)
    /\ Counted.days < Threshold
    /\ champion' = Counted
    /\ Goes(e, "verdict", "idle") /\ Holds(e, Empty)
    /\ UNCHANGED <<stored, previous, sink, status, lock, history>>

\* Below the threshold handle_regression saves the count.
CountRegression(e) ==
    /\ Applies(e, TRUE)
    /\ Counted.days < Threshold
    /\ champion' = Counted
    /\ Persist(Counted)
    /\ Goes(e, "verdict", "idle") /\ Holds(e, Empty)
    /\ UNCHANGED <<previous, sink, status, lock, replaced, displaced, reverts>>

\* At the threshold without a previous champion, or when it cannot be read,
\* the count stays in memory.
RollbackImpossible(e) ==
    /\ Applies(e, TRUE)
    /\ Counted.days >= Threshold
    /\ \/ previous = Absent /\ UNCHANGED faults
       \/ Fails
    /\ champion' = Counted
    /\ Goes(e, "verdict", "idle") /\ Holds(e, Empty)
    /\ UNCHANGED <<stored, previous, sink, status, lock,
                   replaced, diverged, displaced, reverts>>

\* At the threshold the previous champion is read, under the lock.
RollbackStarts(e) ==
    /\ Applies(e, TRUE)
    /\ Counted.days >= Threshold
    /\ previous # Absent
    /\ champion' = Counted
    /\ lock' = e
    /\ Goes(e, "verdict", "mark")
    /\ Holds(e, [Empty EXCEPT !.new = previous])
    /\ UNCHANGED <<stored, previous, sink, status, history>>

\* A row that exists becomes reverted; a failed statement is only logged.
MarkTrial(t) ==
    \/ t = NoTrial /\ UNCHANGED <<status, faults>>
    \/ t # NoTrial /\ status' = [status EXCEPT ![t] = "over"] /\ UNCHANGED faults
    \/ t # NoTrial /\ Fails /\ UNCHANGED status

\* The trial of the champion that goes is marked reverted.
MarkRolledBack(e) ==
    /\ Goes(e, "mark", "restore")
    /\ MarkTrial(champion.trial)
    /\ UNCHANGED <<champion, stored, previous, sink, lock, hand,
                   replaced, diverged, displaced, reverts>>

\* Mutant: the previous champion comes back with the count it had.
RestoreWithCount(e) ==
    /\ Goes(e, "restore", "idle")
    /\ champion' = hand[e].new
    /\ Persist(hand[e].new)
    /\ lock' = NoOne
    /\ Holds(e, Empty)
    /\ UNCHANGED <<previous, sink, status, replaced, displaced, reverts>>

\* The previous champion is restored with its count at 0; the sink is not told.
Restore(e) ==
    LET restored == [hand[e].new EXCEPT !.days = 0]
    IN  /\ Goes(e, "restore", "idle")
        /\ champion' = restored
        /\ Persist(restored)
        /\ lock' = NoOne
        /\ Holds(e, Empty)
        /\ UNCHANGED <<previous, sink, status, replaced, displaced, reverts>>

\* reset_regression_counter: a healthy evaluation clears the count.
ClearCount(e) ==
    /\ Applies(e, FALSE)
    /\ IF champion.days > 0
       THEN champion' = [champion EXCEPT !.days = 0] /\ Persist(champion')
       ELSE UNCHANGED <<champion, stored, diverged, faults>>
    /\ Goes(e, "verdict", "idle") /\ Holds(e, Empty)
    /\ UNCHANGED <<previous, sink, status, lock, replaced, displaced, reverts>>

----------------------------------------------------------------------------
(* autotuner_revert                                                        *)

\* The user's revert reads the previous champion, without the lock; a failed
\* or empty read ends the call without a change.
LoadPrevious(u) ==
    /\ reverts < MaxReverts
    /\ previous # Absent
    /\ Goes(u, "idle", "current")
    /\ Holds(u, [Empty EXCEPT !.new = previous])
    /\ reverts' = reverts + 1
    /\ UNCHANGED <<champion, stored, previous, sink, status, lock,
                   replaced, diverged, displaced, faults>>

\* It clones the champion of the moment.
ReadCurrent(u) ==
    /\ lock = NoOne
    /\ Goes(u, "current", "revert")
    /\ Holds(u, [hand[u] EXCEPT !.seen = champion.trial])
    /\ UNCHANGED <<champion, stored, previous, sink, status, lock, history>>

\* It marks the trial of that champion reverted and goes on to update_champion.
MarkReverted(u) ==
    /\ Goes(u, "revert", "update")
    /\ MarkTrial(hand[u].seen)
    /\ UNCHANGED <<champion, stored, previous, sink, lock, hand,
                   replaced, diverged, displaced, reverts>>

----------------------------------------------------------------------------
(* The trials, and the process                                             *)

\* Reforge adds a trial.
CreateTrial(t) ==
    /\ status[t] = "none"
    /\ status' = [status EXCEPT ![t] = "active"]
    /\ UNCHANGED <<champion, stored, previous, sink, lock, pc, hand, history>>

\* Reforge ends a trial that got old with too few messages.
ExpireTrial(t) ==
    /\ status[t] = "active"
    /\ status' = [status EXCEPT ![t] = "over"]
    /\ UNCHANGED <<champion, stored, previous, sink, lock, pc, hand, history>>

\* The process ends and starts again: the champion is loaded, or the default
\* one when the row cannot be read, and the sink is seeded with it.
Restart ==
    /\ Fails
    /\ \E readable \in BOOLEAN :
        /\ champion' = IF readable THEN Loaded(stored) ELSE Default
        /\ diverged' = ~readable
    /\ sink' = champion'.trial
    /\ lock' = NoOne
    /\ pc' = [p \in Procs |-> "idle"]
    /\ hand' = [p \in Procs |-> Empty]
    /\ displaced' = (displaced \/ \E p \in Procs : pc[p] = "save")
    /\ UNCHANGED <<stored, previous, status, replaced, reverts>>

----------------------------------------------------------------------------
Update(p) == SavePrevious(p) \/ Install(p) \/ WriteSink(p)

Verdict(e) ==
    \/ CountRegression(e) \/ RollbackImpossible(e) \/ RollbackStarts(e)
    \/ MarkRolledBack(e) \/ Restore(e) \/ ClearCount(e)

Evaluation(e) ==
    Evaluate(e) \/ Judge(e) \/ JudgeFails(e) \/ Update(e) \/ Verdict(e)

Revert(u) == LoadPrevious(u) \/ ReadCurrent(u) \/ MarkReverted(u) \/ Update(u)

Next ==
    \/ \E e \in Evaluators : Evaluation(e)
    \/ \E u \in Users : Revert(u)
    \/ \E t \in Trials : CreateTrial(t) \/ ExpireTrial(t)
    \/ Restart

Spec == Init /\ [][Next]_vars

\* The jobs are due every day and their queries return; a revert that has
\* begun goes on.  Nothing makes the user revert or Reforge add trials.
FairSpec ==
    /\ Spec
    /\ \A e \in Evaluators : WF_vars(Evaluation(e))
    /\ \A u \in Users : WF_vars(ReadCurrent(u) \/ MarkReverted(u) \/ Update(u))

----------------------------------------------------------------------------
\* Whenever nobody holds the lock, a restart would bring back the champion in
\* use with its count of regressions (update_champion, handle_regression,
\* reset_regression_counter).  Only a count at the threshold, for which there
\* was nothing to roll back to, may be higher in memory than in the row.  A row
\* that could not be written or read excuses, until the next one is.
RestartKeepsChampion ==
    lock = NoOne /\ ~diverged =>
        /\ Loaded(stored).trial = champion.trial
        /\ Loaded(stored).days <= champion.days
        /\ champion.days < Threshold => Loaded(stored).days = champion.days

\* Whenever nobody holds the lock, the champion a rollback or a revert would
\* go back to is the one the last update_champion replaced, as it was then:
\* no verdict, promotion or revert gets between its save and its replacement.
\* A failed save, or a death between the two, excuses until the next save.
PreviousIsReplaced ==
    lock = NoOne /\ ~displaced => previous = replaced

\* A champion that was seen to regress is not left at that: a later evaluation
\* clears the count, or the champion is replaced by one without it, whatever
\* verdicts, promotions, reverts, failures and restarts come in between, once
\* there is a champion to go back to (run_evaluation).
RegressionSettles ==
    champion.days > 0 /\ previous # Absent ~> champion.days = 0

\* With nothing in progress, live retrieval uses the champion's parameters
\* (with_memory_param_sink).
LiveParamsFollowChampion ==
    (\A p \in Procs : pc[p] = "idle") => sink = champion.trial

=============================================================================
