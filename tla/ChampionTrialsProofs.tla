------------------------- MODULE ChampionTrialsProofs -------------------------
(***************************************************************************)
(* Proofs about ChampionTrials, for any trials, any number of evaluations  *)
(* and reverts, any threshold and bounds.  IInv is inductive.              *)
(***************************************************************************)
EXTENDS ChampionTrials, TLAPS

\* The write lock is held across the awaits of an update and of a rollback,
\* by the process that is there, and by nobody else.
LockHeld ==
    \A p \in Procs : lock = p <=> pc[p] \in {"save", "mark", "restore"}

\* In the middle of an update the previous champion is the one in use; else it
\* is the one the last update replaced.
PreviousIsCurrent ==
    ~displaced =>
        \/ \E p \in Procs : pc[p] = "save" /\ previous = champion
        \/ (\A p \in Procs : pc[p] # "save") /\ previous = replaced

\* The row is the champion in memory, but for a count at the threshold.
RowIsChampion ==
    ~diverged =>
        /\ Loaded(stored).trial = champion.trial
        /\ Loaded(stored).days <= champion.days
        /\ champion.days < Threshold => Loaded(stored).days = champion.days

IInv ==
    /\ TypeOK
    /\ LockHeld
    /\ PreviousIsCurrent
    /\ RowIsChampion

USE DEF history

\* What is loaded is a champion; a counted one is, with no lower count.
LEMMA ChampionFacts ==
    /\ Default \in Champion
    /\ Absent \notin Champion
    /\ \A c \in Champion \cup {Absent} : Loaded(c) \in Champion
    /\ \A c \in Champion : Loaded(c) = c
    /\ Empty \in Hand
    /\ champion \in Champion => /\ Counted \in Champion
                                /\ Counted.trial = champion.trial
                                /\ champion.days <= Counted.days
<1>1. Default \in Champion /\ Absent \notin Champion
    BY ChampionAssumption DEF Default, Absent, Champion
<1>2. Empty \in Hand
    BY <1>1 DEF Empty, Hand
<1>3. ASSUME champion \in Champion
      PROVE  /\ Counted \in Champion
             /\ Counted.trial = champion.trial
             /\ champion.days <= Counted.days
    BY <1>3, ChampionAssumption DEF Counted, Champion
<1> QED BY <1>1, <1>2, <1>3 DEF Loaded
-----------------------------------------------------------------------------
(* Type correctness and the invariant, initially and over each step.       *)

\* The initial states satisfy the inductive invariant.
LEMMA InitInv == Init => IInv
<1> SUFFICES ASSUME Init PROVE IInv
    OBVIOUS
<1>1. TypeOK
    <2>1. pc \in [Procs -> {"idle", "judge", "update", "save", "sink", "verdict",
                            "mark", "restore", "current", "revert"}]
        BY DEF Init
    <2>2. hand \in [Procs -> Hand]
        BY ChampionFacts DEF Init
    <2>3. reverts \in 0..MaxReverts /\ faults \in 0..MaxFaults
        BY ChampionAssumption DEF Init
    <2> QED BY <2>1, <2>2, <2>3, ChampionFacts DEF Init, TypeOK
<1>2. LockHeld
    BY ChampionAssumption DEF Init, LockHeld, Procs
<1>3. PreviousIsCurrent
    BY DEF Init, PreviousIsCurrent
<1>4. RowIsChampion
    BY DEF Init, RowIsChampion, Loaded, Default
<1> QED BY <1>1, <1>2, <1>3, <1>4 DEF IInv

\* A write of the row leaves it in its type.
LEMMA PersistType ==
    ASSUME TypeOK, NEW c \in Champion, Persist(c)
    PROVE  /\ stored' \in Champion \cup {Absent}
           /\ diverged' \in BOOLEAN
           /\ faults' \in 0..MaxFaults
<1>1. stored' \in Champion \cup {Absent} /\ faults' \in 0..MaxFaults
    BY ChampionAssumption DEF TypeOK, Persist, Fails
<1>2. diverged' \in BOOLEAN
    BY DEF Persist
<1> QED BY <1>1, <1>2

\* A champion that is written and installed leaves row and memory agreeing.
LEMMA PersistRow ==
    ASSUME NEW c \in Champion, Persist(c), champion' = c
    PROVE  RowIsChampion'
<1>1. CASE stored' = c
    BY <1>1, ChampionFacts, ChampionAssumption DEF RowIsChampion, Loaded, Champion
<1>2. CASE diverged'
    BY <1>2 DEF RowIsChampion
<1> QED BY <1>1, <1>2 DEF Persist

\* A step that leaves row and memory alone leaves them agreeing.
LEMMA SameRow ==
    ASSUME RowIsChampion, UNCHANGED <<champion, stored, diverged>>
    PROVE  RowIsChampion'
BY DEF RowIsChampion, Loaded

\* A step of a process that neither takes nor gives back the lock.
LEMMA SameLock ==
    ASSUME TypeOK, LockHeld, NEW p \in Procs, NEW from, NEW to,
           Goes(p, from, to), lock' = lock,
           from \in {"save", "mark", "restore"} <=> to \in {"save", "mark", "restore"}
    PROVE  LockHeld'
BY DEF TypeOK, LockHeld, Goes

\* Nobody saves a champion when nobody holds the lock.
LEMMA NobodySaves ==
    ASSUME LockHeld, lock = NoOne
    PROVE  \A p \in Procs : pc[p] \notin {"save", "mark", "restore"}
BY ChampionAssumption DEF LockHeld, Procs

\* A step that changes no champion on either side, and nobody's place in an
\* update, keeps the previous champion.
LEMMA SamePrevious ==
    ASSUME TypeOK, PreviousIsCurrent, NEW p \in Procs, NEW from, NEW to,
           Goes(p, from, to), from # "save", to # "save",
           UNCHANGED <<previous, replaced, displaced>>,
           \/ champion' = champion
           \/ \A q \in Procs : pc[q] # "save"
    PROVE  PreviousIsCurrent'
<1>1. \A q \in Procs : pc'[q] = "save" <=> pc[q] = "save"
    BY DEF TypeOK, Goes
<1> QED BY <1>1 DEF PreviousIsCurrent

\* SavePrevious keeps the invariant.
LEMMA SavePreviousStep ==
    ASSUME IInv, NEW p \in Procs, SavePrevious(p) PROVE IInv'
<1> USE DEF IInv
<1>1. TypeOK'
    <2>1. displaced' \in BOOLEAN
        BY DEF SavePrevious, TypeOK
    <2>2. previous' \in Champion \cup {Absent} /\ faults' \in 0..MaxFaults
        BY ChampionAssumption DEF SavePrevious, TypeOK, Fails
    <2>3. pc' \in [Procs -> {"idle", "judge", "update", "save", "sink", "verdict",
                             "mark", "restore", "current", "revert"}]
        BY DEF SavePrevious, TypeOK, Goes
    <2> QED BY <2>1, <2>2, <2>3 DEF SavePrevious, TypeOK
<1>2. LockHeld'
    BY NobodySaves, ChampionAssumption DEF SavePrevious, TypeOK, LockHeld, Goes
<1>3. PreviousIsCurrent'
    <2>1. pc'[p] = "save"
        BY DEF SavePrevious, TypeOK, Goes
    <2>2. CASE displaced'
        BY <2>2 DEF PreviousIsCurrent
    <2>3. CASE ~displaced'
        <3>1. previous' = champion'
            BY <2>3 DEF SavePrevious
        <3> QED BY <2>1, <3>1 DEF PreviousIsCurrent
    <2> QED BY <2>2, <2>3
<1>4. RowIsChampion'
    BY SameRow DEF SavePrevious
<1> QED BY <1>1, <1>2, <1>3, <1>4

\* Install keeps the invariant: it finds the previous champion still in use.
LEMMA InstallStep == ASSUME IInv, NEW p \in Procs, Install(p) PROVE IInv'
<1> USE DEF IInv
<1>1. hand[p].new \in Champion
    BY DEF TypeOK, Hand
<1>2. TypeOK'
    <2>1. /\ stored' \in Champion \cup {Absent} /\ diverged' \in BOOLEAN
          /\ faults' \in 0..MaxFaults
        BY <1>1, PersistType DEF Install
    <2>2. pc' \in [Procs -> {"idle", "judge", "update", "save", "sink", "verdict",
                             "mark", "restore", "current", "revert"}]
        BY DEF Install, TypeOK, Goes
    <2> QED BY <1>1, <2>1, <2>2 DEF Install, TypeOK
<1>3. \A q \in Procs : pc'[q] \notin {"save", "mark", "restore"}
    BY DEF Install, TypeOK, Goes, LockHeld
<1>4. LockHeld'
    BY <1>3, ChampionAssumption DEF Install, LockHeld, Procs
<1>5. PreviousIsCurrent'
    <2>1. pc[p] = "save"
        BY DEF Install, Goes
    <2>2. ~displaced => previous' = replaced'
        BY <2>1 DEF PreviousIsCurrent, Install
    <2> QED BY <1>3, <2>2 DEF PreviousIsCurrent, Install
<1>6. RowIsChampion'
    BY <1>1, PersistRow DEF Install
<1> QED BY <1>2, <1>4, <1>5, <1>6

\* The steps that change nothing but a place, a hand, the sink or a row of a
\* trial.
Passes(p) ==
    \/ WriteSink(p)
    \/ p \in Evaluators /\ (Evaluate(p) \/ Judge(p) \/ JudgeFails(p) \/ MarkRolledBack(p))
    \/ p \in Users /\ (LoadPrevious(p) \/ ReadCurrent(p) \/ MarkReverted(p))

\* These steps keep the types.
LEMMA PassesType == ASSUME TypeOK, NEW p \in Procs, Passes(p) PROVE TypeOK'
<1> USE ChampionAssumption, ChampionFacts
<1>1. pc' \in [Procs -> {"idle", "judge", "update", "save", "sink", "verdict",
                         "mark", "restore", "current", "revert"}]
    BY DEF Passes, WriteSink, Evaluate, Judge, JudgeFails, MarkRolledBack,
           LoadPrevious, ReadCurrent, MarkReverted, Goes, TypeOK
<1>2. hand' \in [Procs -> Hand]
    <2>1. CASE Judge(p)
        <3>1. PICK pass \in BOOLEAN, regressed \in BOOLEAN, t \in Trials :
                 Holds(p, [new |-> IF pass THEN [trial |-> t, days |-> 0] ELSE Default,
                           seen |-> NoTrial, regressed |-> regressed])
            BY <2>1 DEF Judge
        <3>2. [trial |-> t, days |-> 0] \in Champion
            BY DEF Champion
        <3>3. [new |-> IF pass THEN [trial |-> t, days |-> 0] ELSE Default,
               seen |-> NoTrial, regressed |-> regressed] \in Hand
            BY <3>2 DEF Hand
        <3> QED BY <3>1, <3>3 DEF Holds, TypeOK
    <2>2. CASE WriteSink(p) \/ ReadCurrent(p)
        <3>0. hand[p] \in Hand
            BY DEF TypeOK
        <3>1. [hand[p] EXCEPT !.new = Default, !.seen = NoTrial] \in Hand
            BY <3>0 DEF Hand
        <3>2. champion.trial \in Trials \cup {NoTrial}
            BY DEF TypeOK, Champion
        <3>3. [hand[p] EXCEPT !.seen = champion.trial] \in Hand
            BY <3>0, <3>2 DEF Hand
        <3> QED BY <2>2, <3>1, <3>3 DEF WriteSink, ReadCurrent, Holds, TypeOK
    <2>3. CASE Evaluate(p) \/ LoadPrevious(p)
        <3>1. [Empty EXCEPT !.seen = champion.trial] \in Hand
            BY DEF TypeOK, Hand, Champion, Empty
        <3>2. LoadPrevious(p) => [Empty EXCEPT !.new = previous] \in Hand
            BY DEF LoadPrevious, TypeOK, Hand, Empty
        <3> QED BY <2>3, <3>1, <3>2 DEF Evaluate, LoadPrevious, Holds, TypeOK
    <2>4. CASE JudgeFails(p) \/ MarkRolledBack(p) \/ MarkReverted(p)
        BY <2>4 DEF JudgeFails, MarkRolledBack, MarkReverted, Holds, TypeOK
    <2> QED BY <2>1, <2>2, <2>3, <2>4 DEF Passes
<1>3. /\ sink' \in Trials \cup {NoTrial} /\ reverts' \in 0..MaxReverts
      /\ faults' \in 0..MaxFaults /\ status' \in [Trials -> {"none", "active", "over"}]
    <2>1. CASE WriteSink(p)
        <3>1. hand[p].new.trial \in Trials \cup {NoTrial}
            BY DEF TypeOK, Hand, Champion
        <3> QED BY <2>1, <3>1 DEF WriteSink, TypeOK
    <2>2. CASE Evaluate(p) \/ ReadCurrent(p)
        BY <2>2 DEF Evaluate, ReadCurrent, TypeOK
    <2>3. CASE Judge(p)
        <3>1. UNCHANGED <<sink, reverts, faults, status>>
            BY <2>3 DEF Judge
        <3> QED BY <3>1 DEF TypeOK
    <2>4. CASE JudgeFails(p)
        BY <2>4 DEF JudgeFails, Fails, TypeOK
    <2>5. CASE LoadPrevious(p)
        BY <2>5 DEF LoadPrevious, TypeOK
    <2>6. CASE MarkRolledBack(p) \/ MarkReverted(p)
        <3>1. UNCHANGED <<sink, reverts>>
            BY <2>6 DEF MarkRolledBack, MarkReverted
        <3>2. PICK t : MarkTrial(t)
            BY <2>6 DEF MarkRolledBack, MarkReverted
        <3>3. faults' \in 0..MaxFaults /\ status' \in [Trials -> {"none", "active", "over"}]
            BY <3>2 DEF MarkTrial, Fails, TypeOK
        <3> QED BY <3>1, <3>3 DEF TypeOK
    <2> QED BY <2>1, <2>2, <2>3, <2>4, <2>5, <2>6 DEF Passes
<1>5. /\ UNCHANGED <<champion, stored, previous, lock, replaced>>
      /\ diverged' = diverged /\ displaced' = displaced
    BY DEF Passes, WriteSink, Evaluate, Judge, JudgeFails, MarkRolledBack,
           LoadPrevious, ReadCurrent, MarkReverted
<1> QED BY <1>1, <1>2, <1>3, <1>5 DEF TypeOK

\* These steps keep the invariant.
LEMMA PassesStep == ASSUME IInv, NEW p \in Procs, Passes(p) PROVE IInv'
<1> USE DEF IInv
<1>1. UNCHANGED <<champion, stored, previous, lock, replaced, diverged, displaced>>
    BY DEF Passes, WriteSink, Evaluate, Judge, JudgeFails, MarkRolledBack,
           LoadPrevious, ReadCurrent, MarkReverted
<1>2. \E from, to : /\ Goes(p, from, to)
                    /\ from # "save" /\ to # "save"
                    /\ from \in {"save", "mark", "restore"}
                         <=> to \in {"save", "mark", "restore"}
    <2>1. CASE WriteSink(p)
        BY <2>1 DEF WriteSink
    <2>2. CASE Judge(p)
        BY <2>2 DEF Judge
    <2>3. CASE Evaluate(p) \/ JudgeFails(p) \/ MarkRolledBack(p)
        BY <2>3 DEF Evaluate, JudgeFails, MarkRolledBack
    <2>4. CASE LoadPrevious(p) \/ ReadCurrent(p) \/ MarkReverted(p)
        BY <2>4 DEF LoadPrevious, ReadCurrent, MarkReverted
    <2> QED BY <2>1, <2>2, <2>3, <2>4 DEF Passes
<1>3. LockHeld'
    BY <1>1, <1>2, SameLock
<1>4. PreviousIsCurrent'
    BY <1>1, <1>2, SamePrevious
<1>5. RowIsChampion'
    BY <1>1, SameRow
<1> QED BY <1>3, <1>4, <1>5, PassesType
-----------------------------------------------------------------------------
(* The verdict on the champion.                                            *)

\* The steps that apply a verdict and leave nothing under way.
Counts(e) == CountRegression(e) \/ RollbackImpossible(e) \/ ClearCount(e)

\* A verdict that leaves nothing under way keeps the invariant.
LEMMA CountsStep == ASSUME IInv, NEW e \in Evaluators, Counts(e) PROVE IInv'
<1> USE DEF IInv
<1>0. e \in Procs /\ champion \in Champion
    BY DEF Procs, TypeOK
<1>1. /\ lock = NoOne /\ Goes(e, "verdict", "idle") /\ Holds(e, Empty)
      /\ UNCHANGED <<previous, sink, status, lock, replaced, reverts>>
      /\ displaced' = displaced
    BY DEF Counts, CountRegression, RollbackImpossible, ClearCount, Applies
<1>2. \A q \in Procs : pc[q] # "save"
    BY <1>1, NobodySaves
<1>3. /\ champion' \in Champion /\ stored' \in Champion \cup {Absent}
      /\ diverged' \in BOOLEAN /\ faults' \in 0..MaxFaults
      /\ RowIsChampion'
    <2>1. CASE CountRegression(e)
        BY <2>1, <1>0, ChampionFacts, PersistType, PersistRow DEF CountRegression
    <2>2. CASE RollbackImpossible(e)
        <3>1. champion' \in Champion /\ stored' \in Champion \cup {Absent}
            BY <2>2, <1>0, ChampionFacts DEF RollbackImpossible, TypeOK
        <3>2. diverged' = diverged /\ faults' \in 0..MaxFaults
            BY <2>2, ChampionAssumption DEF RollbackImpossible, TypeOK, Fails
        <3>3. Loaded(stored)' = Loaded(stored)
            BY <2>2 DEF RollbackImpossible, Loaded
        <3>4. Loaded(stored) \in Champion
            BY ChampionFacts DEF TypeOK
        <3>5. /\ champion'.trial = champion.trial /\ champion.days <= champion'.days
              /\ champion'.days >= Threshold
            BY <2>2, <1>0, ChampionFacts DEF RollbackImpossible
        <3>6. RowIsChampion'
            BY <1>0, <3>1, <3>2, <3>3, <3>4, <3>5, ChampionAssumption
            DEF RowIsChampion, Champion
        <3>7. diverged' \in BOOLEAN
            BY <3>2 DEF TypeOK
        <3> QED BY <3>1, <3>2, <3>6, <3>7
    <2>3. CASE ClearCount(e)
        <3>1. CASE champion.days > 0
            <4>1. PICK c : c = [champion EXCEPT !.days = 0]
                OBVIOUS
            <4>2. c \in Champion
                BY <1>0, <4>1, ChampionAssumption DEF Champion
            <4>3. champion' = c /\ Persist(c)
                BY <2>3, <3>1, <4>1 DEF ClearCount
            <4> QED BY <4>2, <4>3, PersistType, PersistRow
        <3>2. CASE ~(champion.days > 0)
            <4>1. UNCHANGED <<champion, stored, faults>> /\ diverged' = diverged
                BY <2>3, <3>2 DEF ClearCount
            <4>2. RowIsChampion'
                BY <4>1, SameRow
            <4> QED BY <4>1, <4>2 DEF TypeOK
        <3> QED BY <3>1, <3>2
    <2> QED BY <2>1, <2>2, <2>3 DEF Counts
<1>4. TypeOK'
    <2>1. pc' \in [Procs -> {"idle", "judge", "update", "save", "sink", "verdict",
                             "mark", "restore", "current", "revert"}]
        BY <1>1 DEF TypeOK, Goes
    <2>2. hand' \in [Procs -> Hand]
        BY <1>1, ChampionFacts DEF TypeOK, Holds
    <2> QED BY <1>1, <1>3, <2>1, <2>2 DEF TypeOK
<1>5. LockHeld'
    BY <1>0, <1>1, SameLock
<1>6. PreviousIsCurrent'
    BY <1>0, <1>1, <1>2, SamePrevious
<1> QED BY <1>3, <1>4, <1>5, <1>6

\* A rollback that begins keeps the invariant: only the count is ahead of the row.
LEMMA RollbackStartsStep ==
    ASSUME IInv, NEW e \in Evaluators, RollbackStarts(e) PROVE IInv'
<1> USE DEF IInv
<1>0. e \in Procs /\ champion \in Champion /\ lock = NoOne
    BY DEF Procs, TypeOK, RollbackStarts, Applies
<1>1. \A q \in Procs : pc[q] \notin {"save", "mark", "restore"}
    BY <1>0, NobodySaves
<1>2. /\ champion' \in Champion /\ champion'.trial = champion.trial
      /\ champion.days <= champion'.days /\ champion'.days >= Threshold
    BY <1>0, ChampionFacts DEF RollbackStarts
<1>3. TypeOK'
    <2>1. pc' \in [Procs -> {"idle", "judge", "update", "save", "sink", "verdict",
                             "mark", "restore", "current", "revert"}]
        BY DEF RollbackStarts, TypeOK, Goes
    <2>2. hand' \in [Procs -> Hand]
        BY ChampionAssumption DEF RollbackStarts, TypeOK, Holds, Empty, Hand
    <2> QED BY <1>0, <1>2, <2>1, <2>2 DEF RollbackStarts, TypeOK
<1>4. LockHeld'
    BY <1>0, <1>1, ChampionAssumption DEF RollbackStarts, TypeOK, LockHeld, Goes
<1>5. PreviousIsCurrent'
    BY <1>0, <1>1, SamePrevious DEF RollbackStarts
<1>6. RowIsChampion'
    <2>1. Loaded(stored)' = Loaded(stored) /\ Loaded(stored) \in Champion
        BY ChampionFacts DEF RollbackStarts, Loaded, TypeOK
    <2> QED BY <1>0, <1>2, <2>1, ChampionAssumption DEF RollbackStarts, RowIsChampion, Champion
<1> QED BY <1>3, <1>4, <1>5, <1>6

\* The end of a rollback keeps the invariant.
LEMMA RestoreStep == ASSUME IInv, NEW e \in Evaluators, Restore(e) PROVE IInv'
<1> USE DEF IInv
<1>0. e \in Procs
    BY DEF Procs
<1>1. PICK c : c = [hand[e].new EXCEPT !.days = 0]
    OBVIOUS
<1>2. c \in Champion
    BY <1>0, <1>1, ChampionAssumption, SMTT(30) DEF TypeOK, Hand, Champion
<1>3. champion' = c /\ Persist(c)
    BY <1>1 DEF Restore
<1>4. \A q \in Procs : pc[q] # "save" /\ pc'[q] \notin {"save", "mark", "restore"}
    BY <1>0 DEF Restore, TypeOK, Goes, LockHeld
<1>5. TypeOK'
    <2>1. pc' \in [Procs -> {"idle", "judge", "update", "save", "sink", "verdict",
                             "mark", "restore", "current", "revert"}]
        BY DEF Restore, TypeOK, Goes
    <2>2. hand' \in [Procs -> Hand]
        BY ChampionFacts DEF Restore, TypeOK, Holds
    <2>3. /\ stored' \in Champion \cup {Absent} /\ diverged' \in BOOLEAN
          /\ faults' \in 0..MaxFaults
        BY <1>2, <1>3, PersistType
    <2> QED BY <1>2, <1>3, <2>1, <2>2, <2>3 DEF Restore, TypeOK
<1>6. LockHeld'
    BY <1>4, ChampionAssumption DEF Restore, LockHeld, Procs
<1>7. PreviousIsCurrent'
    BY <1>0, <1>4, SamePrevious DEF Restore
<1>8. RowIsChampion'
    BY <1>2, <1>3, PersistRow
<1> QED BY <1>5, <1>6, <1>7, <1>8
-----------------------------------------------------------------------------
(* The trials, restarts, and the whole step.                               *)

\* New and expired trials change no champion.
LEMMA TrialStep ==
    ASSUME IInv, NEW t \in Trials, CreateTrial(t) \/ ExpireTrial(t) PROVE IInv'
<1>1. /\ status' \in [Trials -> {"none", "active", "over"}]
      /\ UNCHANGED <<champion, stored, previous, sink, lock, pc, hand, history>>
    BY DEF IInv, CreateTrial, ExpireTrial, TypeOK
<1>2. TypeOK'
    BY <1>1 DEF IInv, TypeOK
<1> QED BY <1>1, <1>2 DEF IInv, LockHeld, PreviousIsCurrent, RowIsChampion, Loaded

\* A restart keeps the invariant, wherever it interrupts the others.
LEMMA RestartStep == ASSUME IInv, Restart PROVE IInv'
<1> USE DEF IInv
<1>1. PICK readable \in BOOLEAN :
        /\ champion' = IF readable THEN Loaded(stored) ELSE Default
        /\ diverged' = ~readable
    BY DEF Restart
<1>2. Loaded(stored) \in Champion /\ champion' \in Champion
    BY <1>1, ChampionFacts DEF TypeOK
<1>3. TypeOK'
    <2>1. sink' \in Trials \cup {NoTrial}
        BY <1>2 DEF Restart, Champion
    <2>2. hand' \in [Procs -> Hand]
        BY ChampionFacts DEF Restart
    <2>3. faults' \in 0..MaxFaults
        BY ChampionAssumption DEF Restart, Fails, TypeOK
    <2>4. diverged' \in BOOLEAN
        BY <1>1
    <2>5. displaced' \in BOOLEAN
        BY Zenon DEF Restart, TypeOK
    <2> QED BY <1>2, <2>1, <2>2, <2>3, <2>4, <2>5 DEF Restart, TypeOK
<1>4. LockHeld'
    BY ChampionAssumption DEF Restart, LockHeld, Procs
<1>5. PreviousIsCurrent'
    <2>1. \A p \in Procs : pc'[p] # "save"
        BY DEF Restart
    <2>2. ~displaced' => ~displaced /\ \A p \in Procs : pc[p] # "save"
        BY DEF Restart
    <2>3. ~displaced' => previous' = replaced'
        BY <2>2 DEF Restart, PreviousIsCurrent
    <2> QED BY <2>1, <2>3 DEF PreviousIsCurrent
<1>6. RowIsChampion'
    <2>1. CASE readable
        <3>1. Loaded(stored)' = Loaded(stored)
            BY DEF Restart, Loaded
        <3> QED BY <1>1, <1>2, <2>1, <3>1, ChampionAssumption DEF RowIsChampion, Champion
    <2>2. CASE ~readable
        BY <1>1, <2>2 DEF RowIsChampion
    <2> QED BY <2>1, <2>2
<1> QED BY <1>3, <1>4, <1>5, <1>6

\* Every step keeps the invariant.
LEMMA NextInv == IInv /\ [Next]_vars => IInv'
<1> SUFFICES ASSUME IInv, [Next]_vars PROVE IInv'
    OBVIOUS
<1>1. ASSUME NEW p \in Procs, Update(p) PROVE IInv'
    BY <1>1, SavePreviousStep, InstallStep, PassesStep DEF Update, Passes
<1>2. ASSUME NEW e \in Evaluators, Evaluation(e) PROVE IInv'
    <2>1. e \in Procs
        BY DEF Procs
    <2>2. CASE Update(e)
        BY <1>1, <2>1, <2>2
    <2>3. CASE Verdict(e)
        BY <2>1, <2>3, CountsStep, RollbackStartsStep, RestoreStep, PassesStep
        DEF Verdict, Counts, Passes
    <2>4. CASE Evaluate(e) \/ Judge(e) \/ JudgeFails(e)
        BY <2>1, <2>4, PassesStep DEF Passes
    <2> QED BY <1>2, <2>2, <2>3, <2>4 DEF Evaluation
<1>3. ASSUME NEW u \in Users, Revert(u) PROVE IInv'
    <2>1. u \in Procs
        BY DEF Procs
    <2> QED BY <1>1, <1>3, <2>1, PassesStep DEF Revert, Passes
<1>4. CASE UNCHANGED vars
    BY <1>4 DEF vars, IInv, TypeOK, LockHeld, PreviousIsCurrent, RowIsChampion, Loaded
<1> QED BY <1>2, <1>3, <1>4, TrialStep, RestartStep DEF Next

\* The inductive invariant holds of every behaviour.
LEMMA Inductive == Spec => []IInv
<1> QED BY InitInv, NextInv, PTL DEF Spec
-----------------------------------------------------------------------------
\* Every variable keeps its type: what is read back from the learning state is
\* a champion, and the count of regressions stays within what it saturates at.
THEOREM TypeCorrect == Spec => []TypeOK
<1>1. IInv => TypeOK
    BY DEF IInv
<1> QED BY <1>1, Inductive, PTL

\* However many evaluations and reverts overlap, a restart brings back the
\* champion in use (update_champion, handle_regression,
\* reset_regression_counter, load_champion).
THEOREM RestartCorrect == Spec => []RestartKeepsChampion
<1>1. IInv => RestartKeepsChampion
    BY DEF IInv, RowIsChampion, RestartKeepsChampion
<1> QED BY <1>1, Inductive, PTL

\* However many updates overlap, the champion to go back to is the one the last
\* update replaced (update_champion, autotuner_revert).
THEOREM PreviousCorrect == Spec => []PreviousIsReplaced
<1>1. IInv => PreviousIsReplaced
    BY NobodySaves DEF IInv, PreviousIsCurrent, PreviousIsReplaced
<1> QED BY <1>1, Inductive, PTL
=============================================================================
