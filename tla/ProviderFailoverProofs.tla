------------------------ MODULE ProviderFailoverProofs ------------------------
(***************************************************************************)
(* Proofs about ProviderFailover, for any number of calls, any threshold,  *)
(* timeout and bounds, with and without a fallback.  IInv is inductive.    *)
(***************************************************************************)
EXTENDS ProviderFailover, TLAPS

\* A call that sleeps has an attempt left.
AttemptsLeft ==
    \A c \in Calls : stage[c] \in {"backoff", "fbsleep"} => attempt[c] < PrimaryAttempts

\* The counter never exceeds the failures since the last success, as far as
\* these are counted.
CountIsEarned == failures <= streak \/ streak = Threshold

IInv ==
    /\ TypeOK
    /\ AttemptsLeft
    /\ CountIsEarned
    /\ ThresholdIsActedOn
    /\ OpenOutlivesRestart

USE DEF breaker, table, history

\* Earlier keeps to the deadlines and their order.
LEMMA EarlierFacts ==
    /\ \A d \in Deadlines : Earlier(d) \in Deadlines
    /\ \A d, e \in Deadlines : d <= e => Earlier(d) <= Earlier(e)
    /\ \A d \in Deadlines : Earlier(d) > 0 => d > 0
BY ProviderAssumption DEF Earlier, Deadlines
-----------------------------------------------------------------------------
(* Type correctness.                                                       *)

\* The initial states satisfy the inductive invariant.
LEMMA InitInv == Init => IInv
<1> SUFFICES ASSUME Init PROVE IInv
    OBVIOUS
<1>1. TypeOK
    <2>1. stage \in [Calls -> Stages] /\ attempt \in [Calls -> 1..PrimaryAttempts]
        BY DEF Init, Stages, PrimaryAttempts
    <2>2. /\ deadline \in [Calls -> Deadlines] /\ saves \in [Deadlines -> Nat]
          /\ openFor \in Deadlines /\ savedFor \in Deadlines
        BY ProviderAssumption DEF Init, Deadlines, NoSaves
    <2>3. failures \in Nat /\ streak \in 0..Threshold /\ cuts \in 0..MaxCuts
        BY ProviderAssumption DEF Init
    <2> QED BY <2>1, <2>2, <2>3 DEF Init, TypeOK
<1>2. AttemptsLeft /\ CountIsEarned /\ ThresholdIsActedOn /\ OpenOutlivesRestart
    BY ProviderAssumption
    DEF Init, AttemptsLeft, CountIsEarned, ThresholdIsActedOn, OpenOutlivesRestart, CircuitOpen
<1> QED BY <1>1, <1>2 DEF IInv

\* A counted failure keeps the types.
LEMMA CountFailureType ==
    ASSUME TypeOK, NEW c \in Calls, CountFailure(c) PROVE TypeOK'
<1>1. /\ failures' \in Nat /\ streak' \in 0..Threshold
      /\ attempt' \in [Calls -> 1..PrimaryAttempts]
    BY ProviderAssumption DEF CountFailure, TypeOK, Least, PrimaryAttempts
<1>2. stage' \in [Calls -> Stages] /\ deadline' \in [Calls -> Deadlines]
    <2>1. ResetTime \in Deadlines
        BY ProviderAssumption DEF Deadlines
    <2> QED BY <2>1 DEF CountFailure, TypeOK, Goes, Stages, AfterPrimary
<1> QED BY <1>1, <1>2 DEF CountFailure, TypeOK

\* The passing of time keeps the types.
LEMMA TickType == ASSUME TypeOK, Tick PROVE TypeOK'
<1>1. openFor' \in Deadlines /\ savedFor' \in Deadlines
    BY EarlierFacts DEF Tick, TypeOK
<1>2. deadline' \in [Calls -> Deadlines]
    BY EarlierFacts DEF Tick, TypeOK
<1>3. saves' \in [Deadlines -> Nat]
    BY ProviderAssumption DEF Tick, TypeOK, Deadlines
<1> QED BY <1>1, <1>2, <1>3 DEF Tick, TypeOK

\* Every step keeps the types.
LEMMA TypeStep == ASSUME TypeOK, AttemptsLeft, [Next]_vars PROVE TypeOK'
<1> USE ProviderAssumption
<1>1. ASSUME NEW c \in Calls, Enter(c) PROVE TypeOK'
    BY <1>1 DEF Enter, TypeOK, Goes, Stages, PrimaryAttempts
<1>2. ASSUME NEW c \in Calls, PrimaryServes(c) PROVE TypeOK'
    <2>1. stage' \in [Calls -> Stages] /\ failures' \in Nat /\ streak' \in 0..Threshold
        BY <1>2 DEF PrimaryServes, TypeOK, Goes, Stages
    <2> QED BY <1>2, <2>1 DEF PrimaryServes, TypeOK
<1>3. ASSUME NEW c \in Calls, PrimaryFails(c) PROVE TypeOK'
    BY <1>3, CountFailureType DEF PrimaryFails
<1>4. ASSUME NEW c \in Calls, PrimaryLimited(c) PROVE TypeOK'
    <2>1. CASE attempt[c] < PrimaryAttempts
        BY <1>4, <2>1 DEF PrimaryLimited, TypeOK, Goes, Stages
    <2>2. CASE ~(attempt[c] < PrimaryAttempts)
        BY <1>4, <2>2, CountFailureType DEF PrimaryLimited
    <2> QED BY <2>1, <2>2
<1>5. ASSUME NEW c \in Calls, BackoffEnds(c) \/ FallbackSleepEnds(c) PROVE TypeOK'
    <2>1. attempt[c] + 1 \in 1..PrimaryAttempts
        BY <1>5 DEF BackoffEnds, FallbackSleepEnds, AttemptsLeft, TypeOK, PrimaryAttempts
    <2> QED BY <1>5, <2>1 DEF BackoffEnds, FallbackSleepEnds, TypeOK, Goes, Stages
<1>6. ASSUME NEW c \in Calls, WriteDeadline(c) \/ ClearCount(c) PROVE TypeOK'
    <2>1. stage' \in [Calls -> Stages]
        BY <1>6 DEF WriteDeadline, ClearCount, TypeOK, Goes, Stages
    <2>2. openFor' \in Deadlines /\ failures' \in Nat
        BY <1>6 DEF WriteDeadline, ClearCount, TypeOK
    <2> QED BY <1>6, <2>1, <2>2 DEF WriteDeadline, ClearCount, TypeOK
<1>7. ASSUME NEW c \in Calls, Announce(c) PROVE TypeOK'
    <2>1. saves' \in [Deadlines -> Nat]
        BY <1>7 DEF Announce, TypeOK
    <2>3. unrecorded' \in BOOLEAN
        BY <1>7, Zenon DEF Announce, TypeOK
    <2>2. stage' \in [Calls -> Stages]
        BY <1>7 DEF Announce, TypeOK, Goes, Stages, AfterPrimary
    <2> QED BY <1>7, <2>1, <2>2, <2>3 DEF Announce, TypeOK
<1>8. ASSUME NEW c \in Calls, FallbackEnds(c) \/ FallbackLimited(c) \/ DirectEnds(c)
      PROVE  TypeOK'
    <2>1. stage' \in [Calls -> Stages]
        BY <1>8 DEF FallbackEnds, FallbackLimited, DirectEnds, TypeOK, Goes, Stages
    <2> QED BY <1>8, <2>1 DEF FallbackEnds, FallbackLimited, DirectEnds, TypeOK
<1>9. ASSUME NEW c \in Calls, Abandon(c) PROVE TypeOK'
    <2>1. cuts' \in 0..MaxCuts
        BY <1>9 DEF Abandon, TypeOK
    <2>3. overdue' \in BOOLEAN /\ unrecorded' \in BOOLEAN
        BY <1>9, Zenon DEF Abandon, TypeOK
    <2>2. stage' \in [Calls -> Stages]
        BY <1>9 DEF Abandon, TypeOK, Goes, Stages
    <2> QED BY <1>9, <2>1, <2>2, <2>3 DEF Abandon, TypeOK
<1>10. ASSUME NEW d \in Deadlines, Save(d) \/ SaveFails(d) PROVE TypeOK'
    <2>1. saves' \in [Deadlines -> Nat]
        BY <1>10 DEF Save, SaveFails, TypeOK
    <2>2. savedFor' \in Deadlines
        BY <1>10 DEF Save, SaveFails, TypeOK
    <2>3. unrecorded' \in BOOLEAN
        BY <1>10, Zenon DEF Save, SaveFails, TypeOK
    <2> QED BY <1>10, <2>1, <2>2, <2>3 DEF Save, SaveFails, TypeOK
<1>11. CASE ProcessCrash
    <2>1. stage' \in [Calls -> Stages] /\ failures' \in Nat /\ streak' \in 0..Threshold
        BY <1>11 DEF ProcessCrash, Stages
    <2>2. /\ deadline' \in [Calls -> Deadlines] /\ saves' \in [Deadlines -> Nat]
          /\ openFor' \in Deadlines
        BY <1>11 DEF ProcessCrash, Deadlines, NoSaves
    <2> QED BY <1>11, <2>1, <2>2 DEF ProcessCrash, TypeOK
<1>12. CASE Launch
    <2>1. openFor' \in Deadlines /\ persisting' \in BOOLEAN
        BY <1>12 DEF Launch, TypeOK, Deadlines
    <2> QED BY <1>12, <2>1 DEF Launch, TypeOK
<1>13. CASE UNCHANGED vars
    BY <1>13 DEF vars, TypeOK
<1> QED
    BY <1>1, <1>2, <1>3, <1>4, <1>5, <1>6, <1>7, <1>8, <1>9, <1>10, <1>11, <1>12, <1>13,
       TickType
    DEF Next, Progress, Saving
-----------------------------------------------------------------------------
(* The parts of the inductive invariant.                                   *)

\* A call only sleeps with an attempt left.
LEMMA AttemptsStep == ASSUME TypeOK, AttemptsLeft, [Next]_vars PROVE AttemptsLeft'
<1>1. ASSUME NEW c \in Calls, Enter(c) \/ Progress(c) \/ Abandon(c) PROVE AttemptsLeft'
    BY <1>1
    DEF AttemptsLeft, TypeOK, Enter, Progress, Abandon, Goes, PrimaryServes, PrimaryFails,
        PrimaryLimited, CountFailure, BackoffEnds, WriteDeadline, ClearCount, Announce,
        FallbackEnds, FallbackLimited, FallbackSleepEnds, DirectEnds, AfterPrimary,
        PrimaryAttempts, FallbackAttempts
<1>2. CASE Saving \/ Tick \/ ProcessCrash \/ Launch \/ UNCHANGED vars
    BY <1>2 DEF AttemptsLeft, Saving, Save, SaveFails, Tick, ProcessCrash, Launch, vars
<1> QED BY <1>1, <1>2 DEF Next

\* A call that failed counts the failure and adds to the streak.
LEMMA CountFailureStep ==
    ASSUME TypeOK, CountIsEarned, NEW c \in Calls, CountFailure(c)
    PROVE  /\ CountIsEarned'
           /\ failures' >= Threshold => stage'[c] = "opening" /\ streak' = Threshold
           /\ failures' < Threshold => stage'[c] = AfterPrimary
           /\ \A b \in Calls : b # c => stage'[b] = stage[b] /\ deadline'[b] = deadline[b]
BY ProviderAssumption DEF CountFailure, TypeOK, CountIsEarned, Goes, Least

\* The count is never more than what the primary earned.
LEMMA CountStep == ASSUME TypeOK, CountIsEarned, [Next]_vars PROVE CountIsEarned'
<1>1. ASSUME NEW c \in Calls, PrimaryServes(c) \/ ClearCount(c) PROVE CountIsEarned'
    BY <1>1 DEF PrimaryServes, ClearCount, CountIsEarned, TypeOK
<1>2. ASSUME NEW c \in Calls, PrimaryFails(c) \/ PrimaryLimited(c) PROVE CountIsEarned'
    BY <1>2, CountFailureStep DEF PrimaryFails, PrimaryLimited, CountIsEarned
<1>3. ASSUME UNCHANGED <<failures, streak>> PROVE CountIsEarned'
    BY <1>3 DEF CountIsEarned
<1>4. CASE ProcessCrash
    BY <1>4 DEF ProcessCrash, CountIsEarned
<1> QED
    BY <1>1, <1>2, <1>3, <1>4
    DEF Next, Enter, Progress, Abandon, BackoffEnds, WriteDeadline, Announce, FallbackEnds,
        FallbackLimited, FallbackSleepEnds, DirectEnds, Saving, Save, SaveFails, Tick, Launch,
        vars

\* The count at the threshold has somebody to act on it.
LEMMA ThresholdStep ==
    ASSUME TypeOK, CountIsEarned, ThresholdIsActedOn, [Next]_vars PROVE ThresholdIsActedOn'
<1>1. ASSUME NEW c \in Calls, PrimaryServes(c) \/ ClearCount(c) PROVE ThresholdIsActedOn'
    BY <1>1, ProviderAssumption DEF PrimaryServes, ClearCount, ThresholdIsActedOn
<1>2. ASSUME NEW c \in Calls, CountFailure(c) PROVE ThresholdIsActedOn'
    BY <1>2, CountFailureStep DEF ThresholdIsActedOn
<1>3. ASSUME NEW c \in Calls, Abandon(c) PROVE ThresholdIsActedOn'
    BY <1>3 DEF Abandon, ThresholdIsActedOn, TypeOK, Goes, Opening
<1>4. ASSUME UNCHANGED <<failures, overdue>>,
             \A c \in Calls : stage[c] \in {"opening", "opened"}
                                 => stage'[c] \in {"opening", "opened"}
      PROVE  ThresholdIsActedOn'
    BY <1>4 DEF ThresholdIsActedOn
<1>5. ASSUME NEW c \in Calls,
             \/ Enter(c) \/ (PrimaryLimited(c) /\ ~CountFailure(c)) \/ BackoffEnds(c)
             \/ WriteDeadline(c) \/ Announce(c) \/ FallbackEnds(c) \/ FallbackLimited(c)
             \/ FallbackSleepEnds(c) \/ DirectEnds(c)
      PROVE  ThresholdIsActedOn'
    <2>1. UNCHANGED <<failures, overdue>>
        BY <1>5
        DEF Enter, PrimaryLimited, BackoffEnds, WriteDeadline, Announce, FallbackEnds,
            FallbackLimited, FallbackSleepEnds, DirectEnds
    <2>2. ASSUME NEW b \in Calls, stage[b] \in {"opening", "opened"}
          PROVE  stage'[b] \in {"opening", "opened"}
        BY <1>5, <2>2
        DEF TypeOK, Enter, PrimaryLimited, BackoffEnds, WriteDeadline, Announce, FallbackEnds,
            FallbackLimited, FallbackSleepEnds, DirectEnds, Goes
    <2> QED BY <1>4, <2>1, <2>2
<1>6. CASE ProcessCrash
    BY <1>6, ProviderAssumption DEF ProcessCrash, ThresholdIsActedOn
<1>7. CASE Saving \/ Tick \/ Launch \/ UNCHANGED vars
    BY <1>4, <1>7 DEF Saving, Save, SaveFails, Tick, Launch, vars
<1> QED BY <1>1, <1>2, <1>3, <1>5, <1>6, <1>7 DEF Next, Progress, PrimaryFails

\* A deadline in memory that some call, task or the row holds stays held
\* when only what is not part of it changes.
LEMMA RecordKept ==
    ASSUME TypeOK, OpenOutlivesRestart, UNCHANGED <<openFor, savedFor, unrecorded>>,
           \A d \in Deadlines : saves[d] > 0 => saves'[d] > 0,
           \A c \in Calls : stage[c] \in {"opened", "announce"} =>
               \/ stage'[c] \in {"opened", "announce"} /\ deadline'[c] = deadline[c]
               \/ saves'[deadline[c]] > 0
    PROVE  OpenOutlivesRestart'
BY DEF TypeOK, OpenOutlivesRestart, CircuitOpen, PendingSaves

\* An open circuit is on record, or known not to be.
LEMMA RecordStep ==
    ASSUME TypeOK, TypeOK', OpenOutlivesRestart, [Next]_vars PROVE OpenOutlivesRestart'
<1>1. ASSUME NEW c \in Calls, WriteDeadline(c) PROVE OpenOutlivesRestart'
    BY <1>1 DEF WriteDeadline, TypeOK, Goes, OpenOutlivesRestart, CircuitOpen, Deadlines
<1>2. ASSUME NEW c \in Calls, Announce(c) PROVE OpenOutlivesRestart'
    <2>1. CASE persisting
        <3>1. UNCHANGED <<openFor, savedFor, unrecorded>>
            BY <1>2, <2>1 DEF Announce
        <3>2. \A d \in Deadlines : saves[d] > 0 => saves'[d] > 0
            BY <1>2, <2>1 DEF Announce, TypeOK
        <3>3. saves'[deadline[c]] > 0
            BY <1>2, <2>1 DEF Announce, TypeOK
        <3>4. ASSUME NEW b \in Calls, b # c
              PROVE  stage'[b] = stage[b] /\ deadline'[b] = deadline[b]
            BY <1>2, <3>4 DEF Announce, TypeOK, Goes
        <3> QED BY <3>1, <3>2, <3>3, <3>4, RecordKept
    <2>2. CASE ~persisting
        BY <1>2, <2>2 DEF Announce, OpenOutlivesRestart
    <2> QED BY <2>1, <2>2
<1>3. ASSUME NEW c \in Calls, Abandon(c) PROVE OpenOutlivesRestart'
    <2>1. CASE stage[c] \in {"opened", "announce"}
        BY <1>3, <2>1 DEF Abandon, Opening, OpenOutlivesRestart
    <2>2. CASE stage[c] \notin {"opened", "announce"}
        <3>1. unrecorded' = unrecorded
            BY <1>3, <2>2 DEF Abandon, Opening, TypeOK
        <3>2. \A b \in Calls : stage[b] \in {"opened", "announce"} => stage'[b] = stage[b]
            BY <1>3, <2>2 DEF Abandon, Goes, TypeOK
        <3> QED BY <1>3, <3>1, <3>2, RecordKept DEF Abandon
    <2> QED BY <2>1, <2>2
<1>4. ASSUME NEW c \in Calls,
             Enter(c) \/ (Progress(c) /\ ~WriteDeadline(c) /\ ~Announce(c))
      PROVE  OpenOutlivesRestart'
    <2>1. UNCHANGED <<openFor, savedFor, saves, unrecorded>>
        BY <1>4
        DEF Enter, Progress, PrimaryServes, PrimaryFails, PrimaryLimited, CountFailure,
            BackoffEnds, ClearCount, FallbackEnds, FallbackLimited, FallbackSleepEnds, DirectEnds
    <2>2. ASSUME NEW b \in Calls, stage[b] \in {"opened", "announce"}
          PROVE  stage'[b] \in {"opened", "announce"} /\ deadline'[b] = deadline[b]
        BY <1>4, <2>2
        DEF TypeOK, Goes, Enter, Progress, PrimaryServes, PrimaryFails, PrimaryLimited,
            CountFailure, BackoffEnds, ClearCount, FallbackEnds, FallbackLimited,
            FallbackSleepEnds, DirectEnds
    <2> QED BY <2>1, <2>2, RecordKept
<1>5. ASSUME NEW d \in Deadlines, Save(d) PROVE OpenOutlivesRestart'
    <2>1. CASE d < savedFor
        BY <1>5, <2>1 DEF Save, OpenOutlivesRestart
    <2>2. CASE ~(d < savedFor)
        BY <1>5, <2>2 DEF Save, OpenOutlivesRestart, CircuitOpen, PendingSaves, TypeOK, Deadlines
    <2> QED BY <2>1, <2>2
<1>6. ASSUME NEW d \in Deadlines, SaveFails(d) PROVE OpenOutlivesRestart'
    BY <1>6 DEF SaveFails, OpenOutlivesRestart
<1>7. CASE Tick
    <2> SUFFICES ASSUME CircuitOpen', ~unrecorded
                 PROVE  \/ savedFor' >= openFor'
                        \/ \E d \in PendingSaves' : d >= openFor'
                        \/ \E c \in Calls : stage'[c] \in {"opened", "announce"}
                                             /\ deadline'[c] >= openFor'
        BY <1>7 DEF Tick, OpenOutlivesRestart
    <2>1. openFor > 0
        BY <1>7, EarlierFacts DEF Tick, CircuitOpen, TypeOK
    <2>2. CASE savedFor >= openFor
        BY <1>7, <2>2, EarlierFacts DEF Tick, TypeOK, Deadlines
    <2>3. ASSUME NEW d \in PendingSaves, d >= openFor
          PROVE  \E e \in PendingSaves' : e >= openFor'
        <3>1. d \in Deadlines /\ d > 0 /\ saves[d] > 0 /\ saves \in [Deadlines -> Nat]
            BY <2>1, <2>3 DEF PendingSaves, TypeOK, Deadlines
        <3>2. d - 1 \in Deadlines /\ d - 1 < ResetTime /\ (d - 1) + 1 = d
            BY <3>1, ProviderAssumption DEF Deadlines
        <3>3. saves'[d - 1] > 0
            BY <1>7, <3>1, <3>2, ProviderAssumption DEF Tick, Deadlines
        <3>4. d - 1 >= openFor'
            BY <1>7, <2>1, <2>3, <3>1 DEF Tick, Earlier, TypeOK, Deadlines
        <3> QED BY <3>2, <3>3, <3>4 DEF PendingSaves
    <2>4. ASSUME NEW c \in Calls, stage[c] \in {"opened", "announce"}, deadline[c] >= openFor
          PROVE  stage'[c] \in {"opened", "announce"} /\ deadline'[c] >= openFor'
        BY <1>7, <2>4, EarlierFacts DEF Tick, TypeOK, Deadlines
    <2> QED BY <2>1, <2>2, <2>3, <2>4 DEF OpenOutlivesRestart, CircuitOpen
<1>8. CASE ProcessCrash
    BY <1>8 DEF ProcessCrash, OpenOutlivesRestart, CircuitOpen
<1>9. CASE Launch
    BY <1>9 DEF Launch, OpenOutlivesRestart, CircuitOpen, TypeOK, Deadlines
<1>10. CASE UNCHANGED vars
    BY <1>10, RecordKept DEF vars
<1> QED
    BY <1>1, <1>2, <1>3, <1>4, <1>5, <1>6, <1>7, <1>8, <1>9, <1>10 DEF Next, Saving

\* IInv is inductive.
LEMMA StepInv == ASSUME IInv, [Next]_vars PROVE IInv'
BY TypeStep, AttemptsStep, CountStep, ThresholdStep, RecordStep DEF IInv
-----------------------------------------------------------------------------
(* Theorems.                                                               *)

\* Every reachable state satisfies the inductive invariant.
THEOREM BreakerInv == Spec => []IInv
BY InitInv, StepInv, PTL DEF Spec

\* Every variable keeps its type; in particular the circuit is never open
\* for longer than reset_timeout_secs from now, restored or not.
THEOREM TypeCorrect == Spec => []TypeOK
<1>1. IInv => TypeOK
    BY DEF IInv
<1> QED BY <1>1, BreakerInv, PTL

\* The failure count never rests at the threshold.
THEOREM ThresholdCorrect == Spec => []ThresholdIsActedOn
<1>1. IInv => ThresholdIsActedOn
    BY DEF IInv
<1> QED BY <1>1, BreakerInv, PTL

\* An open circuit outlives a restart, up to the recorded exceptions.
THEOREM RecordCorrect == Spec => []OpenOutlivesRestart
<1>1. IInv => OpenOutlivesRestart
    BY DEF IInv
<1> QED BY <1>1, BreakerInv, PTL

\* A call that sets out to open the circuit has the failures for it.
LEMMA OpeningIsEarned ==
    ASSUME IInv, Next, NEW c \in Calls, stage[c] # "opening", stage'[c] = "opening"
    PROVE  streak' = Threshold
<1>1. PICK b \in Calls : CountFailure(b) /\ stage'[b] = "opening" /\ b = c
    BY DEF IInv, TypeOK, Next, Goes, Enter, Progress, Abandon, PrimaryServes, PrimaryFails,
           PrimaryLimited, CountFailure, BackoffEnds, WriteDeadline, ClearCount, Announce,
           FallbackEnds, FallbackLimited, FallbackSleepEnds, DirectEnds, Saving, Save,
           SaveFails, Tick, ProcessCrash, Launch, AfterPrimary
<1>2. failures' >= Threshold
    BY <1>1, ProviderAssumption DEF IInv, TypeOK, CountFailure, Goes, AfterPrimary
<1> QED BY <1>1, <1>2, CountFailureStep DEF IInv

\* The circuit opens only for a full count of consecutive failures.
THEOREM OpeningCorrect == Spec => OpensOnlyAtThreshold
<1>1. IInv /\ [Next]_vars =>
        [\A c \in Calls : stage[c] # "opening" /\ stage'[c] = "opening"
                             => streak' = Threshold]_vars
    BY OpeningIsEarned
<1> QED BY <1>1, BreakerInv, PTL DEF Spec, OpensOnlyAtThreshold
=============================================================================
