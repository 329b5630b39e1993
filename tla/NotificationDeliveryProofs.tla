--------------------- MODULE NotificationDeliveryProofs ---------------------
(***************************************************************************)
(* Proofs about NotificationDelivery for every set of alarms, held rows    *)
(* and channels and every bound on faults.                                 *)
(***************************************************************************)
EXTENDS NotificationDelivery, TLAPS

DispatchPCs == {"try_insert", "deliver", "record_ack", "record_error"}

\* An alarm the scheduler knows has a payload, and so has one on the bus.
PayloadsKnown ==
    /\ \A a \in Alarms : phase[a] # "absent" => payload[a] \in AlarmPayload
    /\ \A k \in 1..Len(queue) : queue[k] \in Alarms => phase[queue[k]] # "absent"

\* What the locals hold at each await.
LocalsFit ==
    /\ pc \in {"hold_row", "hold_fire"} =>
         cur \in Alarms /\ subject \in Alarms /\ row \in Releases /\ phase[subject] # "absent"
    /\ pc = "find_held" => cur \in Releases
    /\ pc \in DispatchPCs =>
         /\ cur \in Alarms \cup Releases /\ subject \in Alarms /\ chan \in Channels
         /\ row # None => held[row] \in HeldRow
    /\ pc = "mark_released" =>
         cur \in Releases \cup Alarms /\ row \in Releases /\ held[row] \in HeldRow

Typed == TypeOK /\ PayloadsKnown /\ LocalsFit

LocalsTyped ==
    /\ pc \in PCs
    /\ cur \in Alarms \cup Releases \cup {None}
    /\ subject \in Alarms \cup {None}
    /\ chan \in Channels \cup {None}
    /\ todo \in Seq(Channels)
    /\ attempt \in 0..MaxAttempts
    /\ row \in Releases \cup {None}

\* Going to the next channel of the list, or past its end, leaves the locals in
\* order whichever of the three ways it ends.
LEMMA DispatchFits ==
    ASSUME NEW cs \in Seq(Channels), NEW e \in Alarms \cup Releases, NEW a \in Alarms,
           NEW r \in Releases \cup {None}, r # None => held'[r] \in HeldRow,
           Dispatch(cs, e, a, r)
    PROVE  LocalsTyped' /\ LocalsFit'
<1> USE DispatcherAssumption DEF LocalsTyped, LocalsFit, PCs, DispatchPCs
<1>1. CASE cs # <<>>
    <2>1. Head(cs) \in Channels /\ Tail(cs) \in Seq(Channels)
        BY <1>1
    <2>2. /\ pc' = "try_insert" /\ cur' = e /\ subject' = a /\ row' = r
          /\ chan' = Head(cs) /\ todo' = Tail(cs) /\ attempt' = 1
        BY <1>1 DEF Dispatch
    <2>3. LocalsTyped'
        BY <2>1, <2>2
    <2> QED BY <2>2, <2>3
<1>2. CASE cs = <<>> /\ r # None
    BY <1>2 DEF Dispatch
<1>3. CASE cs = <<>> /\ r = None
    BY <1>3 DEF Dispatch, Idle
<1> QED BY <1>1, <1>2, <1>3

\* The list a payload is dispatched to is a list of channels.
LEMMA ResolveType ==
    ASSUME NEW p \in AlarmPayload
    PROVE  ResolveChannels(p) \in Seq(Channels)
BY DispatcherAssumption DEF ResolveChannels, AlarmPayload

\* The queue grows at the end and shrinks at the front, so what was known of its
\* elements stays known.
LEMMA QueueGrows ==
    ASSUME NEW S, NEW q \in Seq(S), NEW i \in S, NEW k \in 1..Len(Append(q, i))
    PROVE  /\ Append(q, i) \in Seq(S)
           /\ Append(q, i)[k] = i \/ (k \in 1..Len(q) /\ Append(q, i)[k] = q[k])
OBVIOUS

LEMMA QueueShrinks ==
    ASSUME NEW S, NEW q \in Seq(S), q # <<>>
    PROVE  /\ Head(q) \in S /\ Head(q) = q[1] /\ 1 \in 1..Len(q)
           /\ Tail(q) \in Seq(S)
           /\ \A k \in 1..Len(Tail(q)) : k + 1 \in 1..Len(q) /\ Tail(q)[k] = q[k + 1]
OBVIOUS

-----------------------------------------------------------------------------
\* A step that touches neither the contract nor the payloads nor adds to the
\* queue keeps what is known of payloads.
LEMMA PayloadsKept ==
    ASSUME Typed, UNCHANGED <<contractVars, payload>>,
           queue' = queue \/ queue' = <<>> \/ (queue # <<>> /\ queue' = Tail(queue))
    PROVE  PayloadsKnown' /\ queue' \in Seq(Alarms \cup Releases)
<1> USE DEF Typed, TypeOK, PayloadsKnown, contractVars
<1>1. CASE queue' = queue
    BY <1>1
<1>2. CASE queue' = <<>>
    BY <1>2
<1>3. CASE queue # <<>> /\ queue' = Tail(queue)
    BY <1>3, QueueShrinks
<1> QED BY <1>1, <1>2, <1>3

\* The frame of a step of the dispatcher outside the tables.
LEMMA RestTyped ==
    ASSUME Typed, DispatcherFrame
    PROVE  /\ payload' \in [Alarms -> AlarmPayload \cup {None}]
           /\ hours' \in Hours /\ quiet' \in BOOLEAN
           /\ crashes' \in 0..MaxCrashes /\ overruns' \in 0..MaxOverruns
BY DEF Typed, TypeOK, DispatcherFrame

\* The dispatcher keeps the types and what its locals hold at every await.
LEMMA DispatcherTyped == Typed /\ Dispatcher => Typed'
<1> SUFFICES ASSUME Typed, Dispatcher PROVE Typed'
    OBVIOUS
<1> USE DispatcherAssumption
<1>1. CASE ReceiveAlarm
  <2> DEFINE a == Head(queue)
  <2>0. /\ a \in Alarms /\ payload[a] \in AlarmPayload /\ phase[a] # "absent"
        /\ queue # <<>> /\ queue' = Tail(queue)
      BY <1>1, QueueShrinks DEF ReceiveAlarm, Typed, TypeOK, PayloadsKnown
  <2>1. PayloadsKnown' /\ queue' \in Seq(Alarms \cup Releases)
      BY <1>1, <2>0, PayloadsKept DEF ReceiveAlarm, DispatcherFrame
  <2>2. LocalsTyped' /\ LocalsFit' /\ lost' \subseteq Alarms \cup Releases
    <3>1. CASE hours = "malformed" /\ Idle /\ lost' = lost \cup {a}
        BY <3>1, <2>0 DEF Idle, LocalsTyped, LocalsFit, PCs, DispatchPCs, Typed, TypeOK
    <3>2. CASE /\ \E r \in Releases : row' = r
               /\ pc' = "hold_row" /\ cur' = a /\ subject' = a
               /\ UNCHANGED <<chan, todo, attempt, lost>>
        BY <3>2, <2>0, <1>1 DEF ReceiveAlarm, contractVars, LocalsTyped, LocalsFit, PCs,
           DispatchPCs, Typed, TypeOK
    <3>3. CASE Dispatch(ResolveChannels(payload[a]), a, a, None) /\ UNCHANGED lost
        BY <3>3, <2>0, ResolveType, DispatchFits DEF Typed, TypeOK
    <3> QED BY <1>1, <3>1, <3>2, <3>3 DEF ReceiveAlarm
  <2> QED BY <1>1, <2>1, <2>2, RestTyped DEF ReceiveAlarm, Typed, TypeOK, LocalsTyped, contractVars
<1>2. CASE HoldRow
  <2>1. /\ subject \in Alarms /\ row \in Releases
        /\ [alarm_id |-> subject, channels |-> ResolveChannels(payload[subject]),
            released |-> FALSE] \in HeldRow
      BY <1>2, ResolveType DEF HoldRow, Typed, LocalsFit, PayloadsKnown, HeldRow
  <2>2. held' \in [Releases -> HeldRow \cup {None}]
      BY <1>2, <2>1 DEF HoldRow, Typed, TypeOK
  <2>3. PayloadsKnown'
      BY <1>2, PayloadsKept DEF HoldRow, DispatcherFrame
  <2> QED BY <1>2, <2>1, <2>2, <2>3, RestTyped
          DEF HoldRow, Typed, TypeOK, LocalsFit, DispatchPCs, PCs, contractVars, history
<1>3. CASE HoldFire
  <2>1. row \in Releases
      BY <1>3 DEF HoldFire, Typed, LocalsFit
  <2>2. /\ phase' \in [Alarms \cup Releases -> Fires!Phases] /\ heard' = heard
        /\ heardNow' = heardNow
        /\ \A i \in Alarms \cup Releases : phase[i] # "absent" => phase'[i] # "absent"
        /\ \A i \in Alarms : phase'[i] = phase[i]
      BY <1>3, <2>1 DEF HoldFire, Fires!Accept, Fires!Phases, Typed, TypeOK
  <2>3. PayloadsKnown'
      BY <1>3, <2>2 DEF HoldFire, Typed, TypeOK, PayloadsKnown, DispatcherFrame
  <2> QED BY <1>3, <2>2, <2>3, RestTyped
          DEF HoldFire, Idle, Typed, TypeOK, LocalsFit, DispatchPCs, PCs, history
<1>4. CASE ReceiveRelease
  <2>1. PayloadsKnown' /\ queue' \in Seq(Alarms \cup Releases)
      BY <1>4, PayloadsKept DEF ReceiveRelease, DispatcherFrame
  <2> QED BY <1>4, <2>1, RestTyped
          DEF ReceiveRelease, Typed, TypeOK, LocalsFit, DispatchPCs, PCs, contractVars, history
<1>5. CASE FindHeld
  <2>1. cur \in Releases
      BY <1>5 DEF FindHeld, Typed, LocalsFit
  <2>2. LocalsTyped' /\ LocalsFit'
    <3>1. CASE held[cur] # None /\ ~ held[cur].released
      <4>1. held[cur] \in HeldRow
          BY <3>1, <2>1 DEF Typed, TypeOK
      <4>2. held'[cur] \in HeldRow /\ held[cur].channels \in Seq(Channels)
            /\ held[cur].alarm_id \in Alarms
          BY <4>1, <1>5 DEF FindHeld, HeldRow
      <4>3. Dispatch(held[cur].channels, cur, held[cur].alarm_id, cur)
          BY <3>1, <1>5 DEF FindHeld
      <4> QED BY <2>1, <4>2, <4>3, DispatchFits
    <3>2. CASE ~ (held[cur] # None /\ ~ held[cur].released)
      <4>1. Idle
          BY <3>2, <1>5 DEF FindHeld
      <4> QED BY <4>1 DEF Idle, LocalsTyped, LocalsFit, PCs, DispatchPCs
    <3> QED BY <3>1, <3>2
  <2>3. PayloadsKnown'
      BY <1>5, PayloadsKept DEF FindHeld, DispatcherFrame
  <2> QED BY <1>5, <2>2, <2>3, RestTyped
          DEF FindHeld, Typed, TypeOK, LocalsTyped, contractVars, history
<1>6. ASSUME pc \in DispatchPCs, UNCHANGED held
      PROVE  NextChannel => LocalsTyped' /\ LocalsFit'
  <2>1. /\ todo \in Seq(Channels) /\ cur \in Alarms \cup Releases /\ subject \in Alarms
        /\ row \in Releases \cup {None} /\ (row # None => held'[row] \in HeldRow)
      BY <1>6 DEF Typed, TypeOK, LocalsFit, DispatchPCs
  <2> QED BY <2>1, DispatchFits DEF NextChannel
<1>7. ASSUME pc \in DispatchPCs PROVE <<subject, chan>> \in Pairs
    BY <1>7 DEF Typed, LocalsFit, Pairs
<1>8. CASE TryInsert
  <2>1. LocalsTyped' /\ LocalsFit'
    <3>1. CASE UNCHANGED <<cur, subject, chan, todo, attempt, row>> /\ pc' = "deliver"
        BY <3>1, <1>8 DEF TryInsert, LocalsTyped, LocalsFit, PCs, DispatchPCs, Typed, TypeOK
    <3>2. CASE NextChannel
        BY <3>2, <1>6, <1>8 DEF TryInsert, DispatchPCs
    <3> QED BY <3>1, <3>2, <1>8 DEF TryInsert
  <2>2. log' \in [Pairs -> LogStates]
      BY <1>7, <1>8 DEF TryInsert, Typed, TypeOK, LogStates, DispatchPCs
  <2>3. PayloadsKnown'
      BY <1>8, PayloadsKept DEF TryInsert, DispatcherFrame
  <2> QED BY <1>8, <2>1, <2>2, <2>3, RestTyped
          DEF TryInsert, Typed, TypeOK, LocalsTyped, contractVars, history
<1>9. CASE DeliverOk
  <2>1. shown' \in [Pairs -> Nat]
      BY <1>7, <1>9 DEF DeliverOk, Typed, TypeOK, DispatchPCs
  <2>2. PayloadsKnown'
      BY <1>9, PayloadsKept DEF DeliverOk, DispatcherFrame
  <2> QED BY <1>9, <2>1, <2>2, RestTyped
          DEF DeliverOk, Typed, TypeOK, LocalsFit, DispatchPCs, PCs, contractVars
<1>10. CASE DeliverFails
  <2>1. PayloadsKnown'
      BY <1>10, PayloadsKept DEF DeliverFails, DispatcherFrame
  <2>2. attempt' \in 0..MaxAttempts
      BY <1>10 DEF DeliverFails, Typed, TypeOK
  <2> QED BY <1>10, <2>1, <2>2, RestTyped
          DEF DeliverFails, Typed, TypeOK, LocalsFit, DispatchPCs, PCs, contractVars, history
<1>11. CASE RecordAck \/ RecordError
  <2>1. LocalsTyped' /\ LocalsFit'
      BY <1>6, <1>11 DEF RecordAck, RecordError, DispatchPCs
  <2>2. log' \in [Pairs -> LogStates]
      BY <1>7, <1>11 DEF RecordAck, RecordError, Typed, TypeOK, LogStates, DispatchPCs
  <2>3. PayloadsKnown'
      BY <1>11, PayloadsKept DEF RecordAck, RecordError, DispatcherFrame
  <2> QED BY <1>11, <2>1, <2>2, <2>3, RestTyped
          DEF RecordAck, RecordError, Typed, TypeOK, LocalsTyped, contractVars, history
<1>12. CASE MarkReleased
  <2>1. held' \in [Releases -> HeldRow \cup {None}]
      BY <1>12 DEF MarkReleased, Typed, TypeOK, LocalsFit, HeldRow
  <2>2. PayloadsKnown'
      BY <1>12, PayloadsKept DEF MarkReleased, DispatcherFrame
  <2> QED BY <1>12, <2>1, <2>2, RestTyped, SMTT(30)
          DEF MarkReleased, Idle, Typed, TypeOK, LocalsFit, DispatchPCs, PCs, contractVars, history
<1> QED BY <1>1, <1>2, <1>3, <1>4, <1>5, <1>8, <1>9, <1>10, <1>11, <1>12 DEF Dispatcher

\* The scheduler's steps keep the types; what they announce has a payload.
LEMMA SchedulerTyped == Typed /\ Scheduler => Typed'
<1> SUFFICES ASSUME Typed, Scheduler PROVE Typed'
    OBVIOUS
<1> USE DispatcherAssumption DEF Typed, TypeOK, LocalsFit, DispatchPCs, SchedulerFrame, locals,
        faultVars, PayloadsKnown
<1>1. ASSUME NEW a \in Alarms, NEW p \in AlarmPayloads, AlarmScheduled(a, p) PROVE Typed'
  <2>1. /\ phase' = [phase EXCEPT ![a] = "accepted"] /\ UNCHANGED <<heard, heardNow>>
        /\ payload' = [payload EXCEPT ![a] = p]
      BY <1>1 DEF AlarmScheduled, Fires!Accept
  <2>2. p \in AlarmPayload
      OBVIOUS
  <2>3. /\ phase' \in [Alarms \cup Releases -> Fires!Phases]
        /\ payload' \in [Alarms -> AlarmPayload \cup {None}]
      BY <2>1, <2>2 DEF Fires!Phases
  <2>4. PayloadsKnown'
      BY <1>1, <2>1, <2>2 DEF AlarmScheduled
  <2> QED BY <1>1, <2>1, <2>3, <2>4 DEF AlarmScheduled
<1>2. ASSUME NEW S \in SUBSET Alarms, AlarmsWithdrawn(S) PROVE Typed'
  <2>1. /\ phase' \in [Alarms \cup Releases -> Fires!Phases] /\ UNCHANGED <<heard, heardNow>>
        /\ \A i \in Alarms \cup Releases : phase[i] = "absent" <=> phase'[i] = "absent"
      BY <1>2 DEF AlarmsWithdrawn, Fires!Withdraw, Fires!Phases
  <2>2. PayloadsKnown'
      BY <1>2, <2>1 DEF AlarmsWithdrawn
  <2> QED BY <1>2, <2>1, <2>2 DEF AlarmsWithdrawn
<1>3. ASSUME NEW i \in Alarms \cup Releases, FireTaken(i) \/ FireSettled(i) PROVE Typed'
  <2>1. /\ phase' \in [Alarms \cup Releases -> Fires!Phases] /\ UNCHANGED <<heard, heardNow>>
        /\ \A j \in Alarms \cup Releases : phase[j] = "absent" <=> phase'[j] = "absent"
      BY <1>3 DEF FireTaken, FireSettled, Fires!Take, Fires!Settle, Fires!Phases
  <2>2. PayloadsKnown'
      BY <1>3, <2>1 DEF FireTaken, FireSettled
  <2> QED BY <1>3, <2>1, <2>2 DEF FireTaken, FireSettled
<1>4. ASSUME NEW i \in Alarms \cup Releases, FireAnnounced(i) PROVE Typed'
  <2>1. /\ phase' = phase /\ phase[i] # "absent" /\ queue' = Append(queue, i)
        /\ heard' \subseteq Alarms \cup Releases /\ heardNow' \subseteq Alarms \cup Releases
        /\ UNCHANGED payload
      BY <1>4 DEF FireAnnounced, Fires!Announce
  <2>2. PayloadsKnown' /\ queue' \in Seq(Alarms \cup Releases)
      BY <2>1, QueueGrows
  <2> QED BY <1>4, <2>1, <2>2 DEF FireAnnounced
<1> QED BY <1>1, <1>2, <1>3, <1>4 DEF Scheduler

\* So do the clock, the faults and the restart.
LEMMA FaultsTyped ==
    Typed /\ (ClockMoves \/ StatementFails \/ BusOverruns \/ ProcessCrash \/ Launch) => Typed'
<1> SUFFICES ASSUME Typed, ClockMoves \/ StatementFails \/ BusOverruns \/ ProcessCrash \/ Launch
             PROVE  Typed'
    OBVIOUS
<1> USE DispatcherAssumption
<1>1. CASE ClockMoves
    BY <1>1 DEF ClockMoves, contractVars, tables, locals, history, faultVars, Typed, TypeOK,
       PayloadsKnown, LocalsFit
<1>2. CASE StatementFails
  <2>1. PayloadsKnown'
      BY <1>2, PayloadsKept DEF StatementFails, DispatcherFrame
  <2>2. errors' \in 0..MaxErrors
      BY <1>2 DEF StatementFails, Typed, TypeOK
  <2>3. /\ LocalsTyped' /\ LocalsFit' /\ lost' \subseteq Alarms \cup Releases
        /\ faulted' \subseteq Pairs
    <3>1. CASE /\ pc \in {"hold_row", "find_held", "mark_released"}
               /\ GiveUp /\ UNCHANGED faulted
        BY <3>1 DEF GiveUp, Idle, LocalsTyped, LocalsFit, PCs, DispatchPCs, Typed, TypeOK
    <3>2. CASE /\ pc = "hold_fire" /\ Idle
               /\ lost' = lost \cup {cur, row} /\ UNCHANGED faulted
        BY <3>2 DEF Idle, LocalsTyped, LocalsFit, PCs, DispatchPCs, Typed, TypeOK
    <3>3. CASE /\ pc \in {"try_insert", "record_ack", "record_error"}
               /\ NextChannel
               /\ faulted' = faulted \cup {<<subject, chan>>} /\ UNCHANGED lost
      <4>1. /\ todo \in Seq(Channels) /\ cur \in Alarms \cup Releases /\ subject \in Alarms
            /\ chan \in Channels
            /\ row \in Releases \cup {None} /\ (row # None => held'[row] \in HeldRow)
          BY <3>3, <1>2 DEF StatementFails, Typed, TypeOK, LocalsFit, DispatchPCs
      <4>2. LocalsTyped' /\ LocalsFit'
          BY <3>3, <4>1, DispatchFits DEF NextChannel
      <4> QED BY <3>3, <4>1, <4>2 DEF Typed, TypeOK, Pairs
    <3> QED BY <1>2, <3>1, <3>2, <3>3 DEF StatementFails
  <2> QED BY <1>2, <2>1, <2>2, <2>3, RestTyped
          DEF StatementFails, Typed, TypeOK, LocalsTyped, contractVars
<1>3. CASE BusOverruns
  <2>1. PayloadsKnown' /\ queue' \in Seq(Alarms \cup Releases)
      BY <1>3, PayloadsKept DEF BusOverruns, tables
  <2>2. overruns' \in 0..MaxOverruns /\ lost' \subseteq Alarms \cup Releases
      BY <1>3, QueueShrinks DEF BusOverruns, Typed, TypeOK
  <2> QED BY <1>3, <2>1, <2>2
          DEF BusOverruns, Typed, TypeOK, LocalsFit, contractVars, tables, locals
<1>4. CASE ProcessCrash
  <2>1. /\ phase' = phase /\ heard' = heard /\ heardNow' = {} /\ payload' = payload
        /\ queue' = <<>> /\ crashes' \in 0..MaxCrashes
      BY <1>4 DEF ProcessCrash, Fires!Reboot, tables, Typed, TypeOK
  <2>2. lost' \subseteq Alarms \cup Releases
      BY <1>4 DEF ProcessCrash, Typed, TypeOK, LocalsFit
  <2>3. faulted' \subseteq Pairs
      BY <1>4 DEF ProcessCrash, Typed, TypeOK, LocalsFit, DispatchPCs, Pairs
  <2>4. PayloadsKnown'
      BY <2>1 DEF Typed, TypeOK, PayloadsKnown
  <2> QED BY <1>4, <2>1, <2>2, <2>3, <2>4
          DEF ProcessCrash, Typed, TypeOK, LocalsFit, DispatchPCs, PCs, tables
<1>5. CASE Launch
    BY <1>5 DEF Launch, Typed, TypeOK, LocalsFit, DispatchPCs, PCs, PayloadsKnown,
       contractVars, tables, history, faultVars
<1> QED BY <1>1, <1>2, <1>3, <1>4, <1>5

LEMMA TypeStep == Typed /\ [Next]_vars => Typed'
<1> SUFFICES ASSUME Typed, [Next]_vars PROVE Typed'
    OBVIOUS
<1>1. CASE Next
    BY <1>1, DispatcherTyped, SchedulerTyped, FaultsTyped DEF Next
<1>2. CASE UNCHANGED vars
    BY <1>2 DEF vars, contractVars, tables, locals, history, faultVars, Typed, TypeOK,
       PayloadsKnown, LocalsFit
<1> QED BY <1>1, <1>2

LEMMA TypeInit == Init => Typed
BY DispatcherAssumption DEF Init, Fires!Init, Fires!Phases, Typed, TypeOK, PayloadsKnown,
   LocalsFit, PCs, DispatchPCs, LogStates

\* Type correctness of the dispatcher and what it is composed with.
THEOREM TypeCorrect == Spec => []TypeOK
<1>1. Typed => TypeOK
    BY DEF Typed
<1> QED BY <1>1, TypeInit, TypeStep, PTL DEF Spec

-----------------------------------------------------------------------------
(* One delivery per alarm and channel.                                     *)

\* LogTellsTheOutcome is not inductive: it does not say that the dispatcher
\* attempts a delivery only with the pair's log row as its own, still open.
OutcomeInv ==
    /\ \A p \in Pairs : shown[p] \in {0, 1}
    /\ LogTellsTheOutcome
    /\ pc \in {"deliver", "record_error"} =>
         log[<<subject, chan>>] = "sent" /\ shown[<<subject, chan>>] = 0
    /\ pc = "record_error" => Shows(chan)
    /\ pc = "record_ack" =>
         /\ log[<<subject, chan>>] = "sent"
         /\ shown[<<subject, chan>>] = IF Shows(chan) THEN 1 ELSE 0

\* Where going to the next channel can lead.
LEMMA NextChannelPC ==
    ASSUME NextChannel PROVE pc' \in {"try_insert", "mark_released", "recv"}
BY DEF NextChannel, Dispatch, Idle

\* Only TryInsert opens a row, and only an absent one; only the step that
\* delivered or gave up closes it; and only DeliverOk counts.
LEMMA OutcomeStep == Typed /\ OutcomeInv /\ [Next]_vars => OutcomeInv'
<1> SUFFICES ASSUME Typed, OutcomeInv, [Next]_vars PROVE OutcomeInv'
    OBVIOUS
<1> USE DEF OutcomeInv, LogTellsTheOutcome, InHand
<1>0. /\ log \in [Pairs -> LogStates] /\ shown \in [Pairs -> Nat]
      /\ pc \in DispatchPCs => <<subject, chan>> \in Pairs
    BY DEF Typed, TypeOK, LocalsFit, Pairs
<1>1. ASSUME UNCHANGED <<log, shown>>, faulted \subseteq faulted',
             pc \notin {"deliver", "record_ack", "record_error"}
               \/ (pc \in {"deliver", "record_ack", "record_error"}
                     /\ <<subject, chan>> \in faulted'),
             pc' \notin {"deliver", "record_ack", "record_error"}
      PROVE OutcomeInv'
    BY <1>1
<1>2. ASSUME UNCHANGED <<log, shown, faulted, locals>> PROVE OutcomeInv'
    BY <1>2 DEF locals
<1>3. CASE Dispatcher
  <2>1. CASE ReceiveAlarm
    <3>1. pc' \in {"recv", "hold_row", "try_insert", "mark_released"}
        BY <2>1 DEF ReceiveAlarm, Dispatch, Idle
    <3> QED BY <1>1, <2>1, <3>1 DEF ReceiveAlarm
  <2>2. CASE FindHeld
    <3>1. pc' \in {"recv", "try_insert", "mark_released"}
        BY <2>2 DEF FindHeld, Dispatch, Idle
    <3> QED BY <1>1, <2>2, <3>1 DEF FindHeld, history
  <2>3. CASE HoldRow \/ HoldFire \/ ReceiveRelease \/ MarkReleased
      BY <1>1, <2>3 DEF HoldRow, HoldFire, ReceiveRelease, MarkReleased, Idle, history
  <2>4. CASE TryInsert
    <3>1. CASE log[<<subject, chan>>] = "absent" /\ chan \in Registered
        BY <1>0, <2>4, <3>1 DEF TryInsert, history, DispatchPCs
    <3>2. CASE log[<<subject, chan>>] = "absent" /\ chan \notin Registered
      <4>1. pc' \notin {"deliver", "record_ack", "record_error"}
          BY <2>4, <3>2, NextChannelPC DEF TryInsert
      <4>2. <<subject, chan>> \in Pairs /\ <<subject, chan>>[2] = chan
          BY <1>0, <2>4 DEF TryInsert, DispatchPCs
      <4> QED BY <1>0, <2>4, <3>2, <4>1, <4>2 DEF TryInsert, history
    <3>3. CASE log[<<subject, chan>>] # "absent"
        BY <1>1, <2>4, <3>3, NextChannelPC DEF TryInsert, history
    <3> QED BY <3>1, <3>2, <3>3
  <2>5. CASE DeliverOk
      BY <1>0, <2>5 DEF DeliverOk, DispatchPCs
  <2>6. CASE DeliverFails
      BY <2>6 DEF DeliverFails, history
  <2>7. CASE RecordAck
    <3>1. pc' \notin {"deliver", "record_ack", "record_error"}
        BY <2>7, NextChannelPC DEF RecordAck
    <3> QED BY <1>0, <2>7, <3>1 DEF RecordAck, history, DispatchPCs
  <2>8. CASE RecordError
    <3>1. pc' \notin {"deliver", "record_ack", "record_error"}
        BY <2>8, NextChannelPC DEF RecordError
    <3> QED BY <1>0, <2>8, <3>1 DEF RecordError, history, DispatchPCs
  <2> QED BY <1>3, <2>1, <2>2, <2>3, <2>4, <2>5, <2>6, <2>7, <2>8 DEF Dispatcher
<1>4. CASE Scheduler
    BY <1>2, <1>4 DEF Scheduler, AlarmScheduled, AlarmsWithdrawn, FireTaken, FireAnnounced,
       FireSettled, SchedulerFrame
<1>5. CASE StatementFails
  <2>1. pc' \in {"try_insert", "mark_released", "recv"}
      BY <1>5, NextChannelPC DEF StatementFails, GiveUp, Idle
  <2> QED BY <1>1, <1>5, <2>1 DEF StatementFails
<1>6. CASE ProcessCrash
    BY <1>1, <1>6 DEF ProcessCrash, tables
<1>7. CASE ClockMoves \/ BusOverruns
    BY <1>2, <1>7 DEF ClockMoves, BusOverruns, tables, history
<1>8. CASE Launch
    BY <1>1, <1>8 DEF Launch, tables, history
<1>9. CASE UNCHANGED vars
    BY <1>2, <1>9 DEF vars, tables, history
<1> QED BY <1>3, <1>4, <1>5, <1>6, <1>7, <1>8, <1>9 DEF Next

LEMMA OutcomeInit == Init => OutcomeInv
BY DEF Init, OutcomeInv, LogTellsTheOutcome, InHand

\* An alarm is shown at most once on each channel, through every announcement
\* recovery repeats, every hold and release, and every crash.
THEOREM NotifiedAtMostOnce == Spec => []DeliveredAtMostOnce
<1>1. OutcomeInv => DeliveredAtMostOnce
    BY DEF OutcomeInv, DeliveredAtMostOnce
<1> QED BY <1>1, TypeInit, TypeStep, OutcomeInit, OutcomeStep, PTL DEF Spec

\* What notification_log can be relied on for: on a channel that shows anything an
\* ack means shown exactly once and an error not shown; a silent channel has
\* acks for what nobody saw, and no errors; and only a fault, or a name nobody
\* registered, leaves a row open.
THEOREM LogIsTruthful == Spec => []LogTellsTheOutcome
<1>1. OutcomeInv => LogTellsTheOutcome
    BY DEF OutcomeInv
<1> QED BY <1>1, TypeInit, TypeStep, OutcomeInit, OutcomeStep, PTL DEF Spec

-----------------------------------------------------------------------------
(* No held notification is forgotten in silence.                           *)

\* HeldHasWayOut needs to know that a row is dispatched by its own release, that
\* the dispatcher waits with empty hands, and that a fire is not heard before
\* the scheduler has it.
HeldInv ==
    /\ HeldHasWayOut
    /\ \A i \in heard : phase[i] # "absent"
    /\ pc \in {"recv", "down"} => cur = None
    /\ pc \in DispatchPCs => (row = None /\ cur \in Alarms) \/ row = cur
    /\ pc = "mark_released" => row = cur

LocalsInv ==
    /\ pc \in {"recv", "down"} => cur = None
    /\ pc \in DispatchPCs => (row = None /\ cur \in Alarms) \/ row = cur
    /\ pc = "mark_released" => row = cur

\* A dispatch under way goes on with the same event and row, or was of no row.
LEMMA NextChannelKeepsRow ==
    ASSUME Typed, HeldInv, pc \in DispatchPCs, NextChannel
    PROVE  /\ cur \in Releases => cur' = cur
           /\ LocalsInv'
<1> USE DispatcherAssumption DEF HeldInv, DispatchPCs, LocalsInv
<1>1. CASE row = None /\ cur \in Alarms
    BY <1>1 DEF NextChannel, Dispatch, Idle
<1>2. CASE row = cur /\ row # None
    BY <1>2 DEF NextChannel, Dispatch, Idle
<1>3. row = None => cur \in Alarms
    BY DEF Typed, LocalsFit
<1> QED BY <1>1, <1>2, <1>3

\* Taking the head of the queue: everything else stays in it.
LEMMA HeadLeaves ==
    ASSUME Typed, queue # <<>>, queue' = Tail(queue), NEW r \in Releases, InQueue(r)
    PROVE  InQueue(r)' \/ Head(queue) = r
<1>1. PICK k \in 1..Len(queue) : queue[k] = r
    BY DEF InQueue
<1>2. CASE k = 1
    BY <1>1, <1>2 DEF Typed, TypeOK
<1>3. CASE k # 1
  <2>1. k - 1 \in 1..Len(Tail(queue)) /\ Tail(queue)[k - 1] = r
      BY <1>1, <1>3 DEF Typed, TypeOK
  <2> QED BY <2>1 DEF InQueue
<1> QED BY <1>2, <1>3

\* Appending keeps what is queued and adds the new event.
LEMMA EventArrives ==
    ASSUME Typed, NEW i \in Alarms \cup Releases, queue' = Append(queue, i)
    PROVE  InQueue(i)' /\ (\A r \in Releases : InQueue(r) => InQueue(r)')
<1> USE DEF Typed, TypeOK
<1>1. Len(queue) + 1 \in 1..Len(Append(queue, i)) /\ Append(queue, i)[Len(queue) + 1] = i
    OBVIOUS
<1>2. ASSUME NEW r \in Releases, NEW k \in 1..Len(queue), queue[k] = r
      PROVE  k \in 1..Len(Append(queue, i)) /\ Append(queue, i)[k] = r
    BY <1>2
<1> QED BY <1>1, <1>2 DEF InQueue

\* A step that leaves the contract and the held rows alone and takes a release
\* out of the queue or out of hand only by passing it on or recording its loss.
LEMMA WayOutKept ==
    ASSUME Typed, HeldInv, UNCHANGED <<phase, heard, held>>, lost \subseteq lost',
           LocalsInv',
           \A r \in Releases :
             /\ InQueue(r) => InQueue(r)' \/ cur' = r \/ r \in lost'
             /\ cur = r => cur' = r \/ r \in lost'
             /\ pc = "hold_fire" /\ row = r =>
                  (pc' = "hold_fire" /\ row' = r) \/ r \in lost'
    PROVE  HeldInv'
BY DEF HeldInv, HeldHasWayOut, HasWayOut, Pending, LocalsInv

\* The same for a step that has nothing to do with the queue.
LEMMA WayOutInHand ==
    ASSUME Typed, HeldInv, UNCHANGED <<phase, heard, held, queue>>, lost \subseteq lost',
           LocalsInv', pc # "hold_fire",
           cur \in Releases => cur' = cur \/ cur \in lost'
    PROVE  HeldInv'
BY WayOutKept DEF InQueue

\* Each step of the dispatcher passes a release on, finishes it or, in hold,
\* adds the fire right after the row.
LEMMA DispatcherHeld == Typed /\ HeldInv /\ Dispatcher => HeldInv'
<1> SUFFICES ASSUME Typed, HeldInv, Dispatcher PROVE HeldInv'
    OBVIOUS
<1> USE DispatcherAssumption
<1>1. CASE ReceiveAlarm
  <2>1. /\ pc = "recv" /\ queue # <<>> /\ queue' = Tail(queue)
        /\ Head(queue) \in Alarms /\ Head(queue) \notin Releases
        /\ lost \subseteq lost' /\ UNCHANGED <<phase, heard, held>>
      BY <1>1 DEF ReceiveAlarm, contractVars
  <2>2. LocalsInv'
      BY <1>1 DEF ReceiveAlarm, Dispatch, Idle, LocalsInv, DispatchPCs
  <2>3. cur = None
      BY <2>1 DEF HeldInv
  <2>4. \A r \in Releases : InQueue(r) => InQueue(r)'
      BY <2>1, HeadLeaves
  <2> QED BY <2>1, <2>2, <2>3, <2>4, WayOutKept
<1>2. CASE HoldRow
  <2>1. row \in Releases /\ cur \in Alarms
      BY <1>2 DEF HoldRow, Typed, LocalsFit
  <2>2. /\ \A r \in Releases : r # row => held'[r] = held[r]
        /\ pc' = "hold_fire" /\ row' = row
        /\ UNCHANGED <<phase, heard, queue, cur, lost>>
        /\ pc # "hold_fire"
      BY <1>2, <2>1 DEF HoldRow, Typed, TypeOK, contractVars, history
  <2> QED BY <2>1, <2>2 DEF HeldInv, HeldHasWayOut, HasWayOut, Pending, InQueue, DispatchPCs
<1>3. CASE HoldFire
  <2>1. row \in Releases /\ cur \in Alarms
      BY <1>3 DEF HoldFire, Typed, LocalsFit
  <2>2. /\ phase[row] = "absent" /\ phase' = [phase EXCEPT ![row] = "accepted"]
        /\ UNCHANGED <<heard, held, queue, lost>>
        /\ pc' = "recv" /\ cur' = None
      BY <1>3 DEF HoldFire, Fires!Accept, Idle, history
  <2>3. phase'[row] = "accepted" /\ row \notin heard
        /\ \A i \in Alarms \cup Releases : i # row => phase'[i] = phase[i]
      BY <2>1, <2>2 DEF HeldInv, Typed, TypeOK
  <2>4. HeldHasWayOut'
      BY <2>1, <2>2, <2>3 DEF HeldInv, HeldHasWayOut, HasWayOut, Pending, InQueue
  <2>5. \A i \in heard' : phase'[i] # "absent"
      BY <2>1, <2>2, <2>3 DEF HeldInv, Typed, TypeOK
  <2> QED BY <2>2, <2>4, <2>5 DEF HeldInv, DispatchPCs
<1>4. CASE ReceiveRelease
  <2>1. /\ pc = "recv" /\ queue # <<>> /\ queue' = Tail(queue) /\ cur' = Head(queue)
        /\ pc' = "find_held" /\ UNCHANGED <<phase, heard, held, lost>>
      BY <1>4 DEF ReceiveRelease, contractVars, history
  <2>2. cur = None
      BY <2>1 DEF HeldInv
  <2>3. \A r \in Releases : InQueue(r) => InQueue(r)' \/ cur' = r
      BY <2>1, HeadLeaves
  <2> QED BY <2>1, <2>2, <2>3, WayOutKept DEF LocalsInv, DispatchPCs
<1>5. CASE FindHeld
  <2>1. /\ cur \in Releases /\ pc = "find_held"
        /\ UNCHANGED <<phase, heard, held, queue, lost>>
      BY <1>5 DEF FindHeld, Typed, LocalsFit, contractVars, history
  <2>2. CASE Pending(cur)
    <3>1. Dispatch(held[cur].channels, cur, held[cur].alarm_id, cur)
        BY <1>5, <2>2 DEF FindHeld, Pending
    <3>2. cur' = cur /\ LocalsInv'
        BY <2>1, <3>1 DEF Dispatch, LocalsInv, DispatchPCs
    <3> QED BY <2>1, <3>2, WayOutInHand
  <2>3. CASE ~ Pending(cur)
    <3>1. Idle
        BY <1>5, <2>3 DEF FindHeld, Pending
    <3> QED BY <2>1, <2>3, <3>1
            DEF Idle, HeldInv, HeldHasWayOut, HasWayOut, Pending, InQueue, DispatchPCs
  <2> QED BY <2>2, <2>3
<1>6. CASE TryInsert \/ RecordAck \/ RecordError
  <2>1. /\ pc \in DispatchPCs /\ UNCHANGED <<phase, heard, held, queue, lost>>
        /\ NextChannel \/ (UNCHANGED <<cur, row>> /\ pc' = "deliver")
      BY <1>6 DEF TryInsert, RecordAck, RecordError, DispatchPCs, contractVars, history
  <2>2. LocalsInv' /\ (cur \in Releases => cur' = cur)
      BY <2>1, NextChannelKeepsRow DEF LocalsInv, HeldInv, DispatchPCs
  <2> QED BY <2>1, <2>2, WayOutInHand DEF DispatchPCs
<1>7. CASE DeliverOk \/ DeliverFails
    BY <1>7, WayOutInHand DEF DeliverOk, DeliverFails, DispatchPCs, LocalsInv, HeldInv,
       contractVars, history
<1>8. CASE MarkReleased
  <2>1. /\ row \in Releases /\ held[row] \in HeldRow /\ row = cur /\ pc = "mark_released"
        /\ held' = [held EXCEPT ![row] = [held[row] EXCEPT !.released = TRUE]]
        /\ UNCHANGED <<phase, heard, queue, lost>> /\ pc' = "recv" /\ cur' = None
      BY <1>8 DEF MarkReleased, Idle, Typed, LocalsFit, HeldInv, contractVars, history
  <2>2. held'[row].released = TRUE /\ \A r \in Releases : r # row => held'[r] = held[r]
      BY <2>1 DEF Typed, TypeOK, HeldRow
  <2> QED BY <2>1, <2>2
          DEF HeldInv, HeldHasWayOut, HasWayOut, Pending, InQueue, DispatchPCs
<1> QED BY <1>1, <1>2, <1>3, <1>4, <1>5, <1>6, <1>7, <1>8 DEF Dispatcher

\* The scheduler announces a fire into the queue and settles an unannounced one
\* as lost; nobody withdraws a release.
LEMMA SchedulerHeld == Typed /\ HeldInv /\ Scheduler => HeldInv'
<1> SUFFICES ASSUME Typed, HeldInv, Scheduler PROVE HeldInv'
    OBVIOUS
<1> USE DispatcherAssumption DEF HeldInv, HeldHasWayOut, HasWayOut, Pending, SchedulerFrame, locals
<1>0. phase \in [Alarms \cup Releases -> Fires!Phases] /\ heard \subseteq Alarms \cup Releases
    BY DEF Typed, TypeOK
<1>1. ASSUME NEW a \in Alarms, NEW p \in AlarmPayloads, AlarmScheduled(a, p) PROVE HeldInv'
  <2>1. phase' = [phase EXCEPT ![a] = "accepted"] /\ UNCHANGED <<heard, queue, lost>>
      BY <1>1 DEF AlarmScheduled, Fires!Accept
  <2>2. \A i \in Alarms \cup Releases : i = a \/ phase'[i] = phase[i]
      BY <1>0, <2>1
  <2>3. phase'[a] = "accepted"
      BY <1>0, <2>1
  <2> QED BY <1>0, <1>1, <2>1, <2>2, <2>3 DEF AlarmScheduled, InQueue
<1>2. ASSUME NEW S \in SUBSET Alarms, AlarmsWithdrawn(S) PROVE HeldInv'
  <2>1. /\ \A r \in Releases : phase'[r] = phase[r]
        /\ \A i \in Alarms \cup Releases : phase[i] # "absent" => phase'[i] # "absent"
        /\ UNCHANGED <<heard, queue, lost>>
      BY <1>0, <1>2 DEF AlarmsWithdrawn, Fires!Withdraw
  <2> QED BY <1>0, <1>2, <2>1 DEF AlarmsWithdrawn, InQueue
<1>3. ASSUME NEW i \in Alarms \cup Releases, FireTaken(i) PROVE HeldInv'
  <2>1. /\ phase[i] = "accepted" /\ phase' = [phase EXCEPT ![i] = "taken"]
        /\ UNCHANGED <<heard, queue, lost>>
      BY <1>3 DEF FireTaken, Fires!Take
  <2>2. \A j \in Alarms \cup Releases : phase'[j] = IF j = i THEN "taken" ELSE phase[j]
      BY <1>0, <2>1
  <2> QED BY <1>0, <1>3, <2>1, <2>2 DEF FireTaken, InQueue
<1>4. ASSUME NEW i \in Alarms \cup Releases, FireAnnounced(i) PROVE HeldInv'
  <2>1. /\ phase' = phase /\ phase[i] # "absent" /\ heard' = heard \cup {i}
        /\ queue' = Append(queue, i) /\ lost' = lost \ {i}
      BY <1>4 DEF FireAnnounced, Fires!Announce
  <2>2. InQueue(i)' /\ (\A r \in Releases : InQueue(r) => InQueue(r)')
      BY <2>1, EventArrives
  <2> QED BY <1>4, <2>1, <2>2 DEF FireAnnounced
<1>5. ASSUME NEW i \in Alarms \cup Releases, FireSettled(i) PROVE HeldInv'
  <2>1. /\ phase[i] = "taken" /\ phase' = [phase EXCEPT ![i] = "settled"]
        /\ lost' = IF i \in heard THEN lost ELSE lost \cup {i}
        /\ UNCHANGED <<heard, queue>>
      BY <1>5 DEF FireSettled, Fires!Settle
  <2>2. \A j \in Alarms \cup Releases : phase'[j] = IF j = i THEN "settled" ELSE phase[j]
      BY <1>0, <2>1
  <2> QED BY <1>0, <1>5, <2>1, <2>2 DEF FireSettled, InQueue
<1> QED BY <1>1, <1>2, <1>3, <1>4, <1>5 DEF Scheduler

\* A fault that takes an event or a half-written hold records it as lost.
LEMMA FaultsHeld ==
    Typed /\ HeldInv /\ (ClockMoves \/ StatementFails \/ BusOverruns \/ ProcessCrash \/ Launch)
      => HeldInv'
<1> SUFFICES ASSUME Typed, HeldInv,
                    ClockMoves \/ StatementFails \/ BusOverruns \/ ProcessCrash \/ Launch
             PROVE  HeldInv'
    OBVIOUS
<1> USE DispatcherAssumption
<1>1. CASE ClockMoves
    BY <1>1 DEF ClockMoves, contractVars, tables, locals, history,
       HeldInv, HeldHasWayOut, HasWayOut, Pending, InQueue
<1>2. CASE StatementFails
  <2>1. UNCHANGED <<phase, heard, held, queue>>
      BY <1>2 DEF StatementFails, contractVars
  <2>2. CASE pc \in {"hold_row", "find_held", "mark_released"} /\ GiveUp
      BY <2>1, <2>2, WayOutInHand DEF GiveUp, Idle, LocalsInv, DispatchPCs
  <2>3. CASE pc = "hold_fire" /\ Idle /\ lost' = lost \cup {cur, row}
      BY <2>1, <2>3, WayOutKept DEF Idle, LocalsInv, DispatchPCs, InQueue
  <2>4. CASE /\ pc \in {"try_insert", "record_ack", "record_error"} /\ NextChannel
             /\ UNCHANGED lost
      BY <2>1, <2>4, NextChannelKeepsRow, WayOutInHand DEF DispatchPCs
  <2> QED BY <1>2, <2>2, <2>3, <2>4 DEF StatementFails
<1>3. CASE BusOverruns
  <2>1. /\ queue # <<>> /\ queue' = Tail(queue) /\ lost' = lost \cup {Head(queue)}
        /\ UNCHANGED <<phase, heard, held, pc, cur, row>>
      BY <1>3 DEF BusOverruns, contractVars, tables, locals
  <2>2. \A r \in Releases : InQueue(r) => InQueue(r)' \/ r \in lost'
      BY <2>1, HeadLeaves
  <2> QED BY <2>1, <2>2, WayOutKept DEF LocalsInv, HeldInv
<1>4. CASE ProcessCrash
  <2>1. /\ UNCHANGED <<phase, heard, held>> /\ lost \subseteq lost'
        /\ pc' = "down" /\ cur' = None
        /\ \A r \in Releases : InQueue(r) \/ cur = r => r \in lost'
        /\ pc = "hold_fire" => row \in lost'
      BY <1>4 DEF ProcessCrash, Fires!Reboot, tables
  <2> QED BY <2>1, WayOutKept DEF LocalsInv, DispatchPCs
<1>5. CASE Launch
    BY <1>5 DEF Launch, contractVars, tables, history,
       HeldInv, HeldHasWayOut, HasWayOut, Pending, InQueue, DispatchPCs
<1> QED BY <1>1, <1>2, <1>3, <1>4, <1>5

LEMMA HeldStep == Typed /\ HeldInv /\ [Next]_vars => HeldInv'
<1> SUFFICES ASSUME Typed, HeldInv, [Next]_vars PROVE HeldInv'
    OBVIOUS
<1>1. CASE Next
    BY <1>1, DispatcherHeld, SchedulerHeld, FaultsHeld DEF Next
<1>2. CASE UNCHANGED vars
    BY <1>2 DEF vars, contractVars, tables, locals, history,
       HeldInv, HeldHasWayOut, HasWayOut, Pending, InQueue
<1> QED BY <1>1, <1>2

LEMMA HeldInit == Init => HeldInv
BY DEF Init, Fires!Init, HeldInv, HeldHasWayOut, HasWayOut, Pending, DispatchPCs

\* A pending held notification still has its release to come, has it under way,
\* or lost it to a fault or to the misfire policy: no order of announcements,
\* releases and crashes loses track of one.
THEOREM HeldIsNeverForgotten == Spec => []HeldHasWayOut
<1>1. HeldInv => HeldHasWayOut
    BY DEF HeldInv
<1> QED BY <1>1, TypeInit, TypeStep, HeldInit, HeldStep, PTL DEF Spec
-----------------------------------------------------------------------------
(* A released notification was dispatched on every channel.                *)

\* The pair has a log row, or a database error skipped it.
LoggedOrFaulted(p) == log[p] # "absent" \/ p \in faulted

\* The dispatcher is at the n-th channel of the held row r: what comes before is
\* answered, what comes after is todo.
AtChannel(r, n) ==
    LET cs == held[r].channels IN
    /\ subject = held[r].alarm_id /\ chan = cs[n]
    /\ Len(todo) = Len(cs) - n
    /\ \A j \in 1..Len(todo) : todo[j] = cs[n + j]
    /\ \A k \in 1..n - 1 : LoggedOrFaulted(<<subject, cs[k]>>)

AllAnswered(r) ==
    \A k \in 1..Len(held[r].channels) :
        LoggedOrFaulted(<<held[r].alarm_id, held[r].channels[k]>>)

\* ReleasedWasDispatched is about the end of a release; this is about its course.
ReleaseInv ==
    /\ \A r \in Releases : held[r] # None /\ held[r].released => AllAnswered(r)
    /\ pc \in DispatchPCs /\ row # None => \E n \in 1..Len(held[row].channels) : AtChannel(row, n)
    /\ pc = "mark_released" => AllAnswered(row)

\* From one place in a list to the next.
LEMMA NextPlace ==
    ASSUME NEW S, NEW cs \in Seq(S), NEW n \in 1..Len(cs), NEW q \in Seq(S),
           Len(q) = Len(cs) - n, \A j \in 1..Len(q) : q[j] = cs[n + j]
    PROVE  /\ q = <<>> => n = Len(cs)
           /\ q # <<>> => /\ n + 1 \in 1..Len(cs) /\ Head(q) = cs[n + 1]
                          /\ Len(Tail(q)) = Len(cs) - (n + 1)
                          /\ \A j \in 1..Len(Tail(q)) : Tail(q)[j] = cs[n + 1 + j]
<1>1. CASE q = <<>>
    BY <1>1
<1>2. CASE q # <<>>
  <2>1. Len(q) >= 1 /\ Head(q) = q[1] /\ Len(Tail(q)) = Len(q) - 1
      BY <1>2
  <2>2. \A j \in 1..Len(Tail(q)) : j + 1 \in 1..Len(q) /\ Tail(q)[j] = q[j + 1]
      BY <1>2
  <2>3. q[1] = cs[n + 1]
      BY <2>1
  <2>4. ASSUME NEW j \in 1..Len(Tail(q)) PROVE Tail(q)[j] = cs[n + 1 + j]
    <3>1. q[j + 1] = cs[n + (j + 1)] /\ n + (j + 1) = n + 1 + j
        BY <2>1, <2>2
    <3> QED BY <2>2, <3>1
  <2> QED BY <1>2, <2>1, <2>3, <2>4
<1> QED BY <1>1, <1>2

\* What is answered stays answered.
LEMMA AnswersStay == Typed /\ [Next]_vars => \A p \in Pairs : LoggedOrFaulted(p) => LoggedOrFaulted(p)'
<1> SUFFICES ASSUME Typed, [Next]_vars, NEW p \in Pairs, LoggedOrFaulted(p)
             PROVE  LoggedOrFaulted(p)'
    OBVIOUS
<1> USE DEF LoggedOrFaulted
<1>0. log \in [Pairs -> LogStates]
    BY DEF Typed, TypeOK
<1>1. CASE Dispatcher
    BY <1>0, <1>1 DEF Dispatcher, ReceiveAlarm, HoldRow, HoldFire, ReceiveRelease, FindHeld,
       TryInsert, DeliverOk, DeliverFails, RecordAck, RecordError, MarkReleased, history
<1>2. CASE Scheduler
    BY <1>2 DEF Scheduler, AlarmScheduled, AlarmsWithdrawn, FireTaken, FireAnnounced,
       FireSettled, SchedulerFrame
<1>3. CASE ClockMoves \/ StatementFails \/ BusOverruns \/ ProcessCrash \/ Launch
    BY <1>3 DEF ClockMoves, StatementFails, BusOverruns, ProcessCrash, Launch, tables, history
<1>4. CASE UNCHANGED vars
    BY <1>4 DEF vars, tables, history
<1> QED BY <1>1, <1>2, <1>3, <1>4 DEF Next

\* The channels of a held row make pairs of the log.
LEMMA HeldPairs ==
    ASSUME Typed, NEW r \in Releases, held[r] \in HeldRow
    PROVE  /\ held[r].channels \in Seq(Channels) /\ held[r].alarm_id \in Alarms
           /\ \A k \in 1..Len(held[r].channels) : <<held[r].alarm_id, held[r].channels[k]>> \in Pairs
BY DEF HeldRow, Pairs

\* A row that a step leaves alone is as far as it was.
LEMMA RowStays ==
    ASSUME Typed, [Next]_vars, NEW r \in Releases, held[r] \in HeldRow, held'[r] = held[r]
    PROVE  /\ AllAnswered(r) => AllAnswered(r)'
           /\ \A n \in 1..Len(held[r].channels) :
                AtChannel(r, n) /\ UNCHANGED <<subject, chan, todo>> => AtChannel(r, n)'
<1> USE HeldPairs, AnswersStay
<1>1. AllAnswered(r) => AllAnswered(r)'
    BY DEF AllAnswered
<1>2. ASSUME NEW n \in 1..Len(held[r].channels), AtChannel(r, n), UNCHANGED <<subject, chan, todo>>
      PROVE  AtChannel(r, n)'
  <2>1. \A k \in 1..n - 1 : k \in 1..Len(held[r].channels)
      OBVIOUS
  <2>2. \A k \in 1..n - 1 : LoggedOrFaulted(<<subject, held[r].channels[k]>>)'
      BY <1>2, <2>1 DEF AtChannel
  <2> QED BY <1>2, <2>2 DEF AtChannel
<1> QED BY <1>1, <1>2

\* A step that marks no row and ends no channel.
LEMMA ReleaseKept ==
    ASSUME Typed, ReleaseInv, [Next]_vars, UNCHANGED held,
           pc' \in DispatchPCs =>
             \/ row' = None
             \/ pc \in DispatchPCs /\ UNCHANGED <<subject, chan, todo, row>>,
           pc' # "mark_released"
    PROVE  ReleaseInv'
<1>1. ASSUME NEW r \in Releases, held'[r] # None, held'[r].released PROVE AllAnswered(r)'
    BY <1>1, RowStays DEF ReleaseInv, Typed, TypeOK
<1>2. ASSUME pc' \in DispatchPCs, row' # None
      PROVE  \E n \in 1..Len(held'[row'].channels) : AtChannel(row, n)'
  <2>1. pc \in DispatchPCs /\ UNCHANGED <<subject, chan, todo, row>>
      BY <1>2
  <2>2. row \in Releases /\ held[row] \in HeldRow
      BY <1>2, <2>1 DEF Typed, TypeOK, LocalsFit
  <2>3. PICK r \in Releases : r = row
      BY <2>2
  <2>4. PICK n \in 1..Len(held[r].channels) : AtChannel(r, n)
      BY <1>2, <2>1, <2>3 DEF ReleaseInv
  <2>5. AtChannel(r, n)'
      BY <2>1, <2>2, <2>3, <2>4, RowStays
  <2> QED BY <2>1, <2>3, <2>4, <2>5 DEF AtChannel
<1> QED BY <1>1, <1>2 DEF ReleaseInv

\* The end of a channel: the next one is in hand, or all are answered.
LEMMA ReleaseAdvances ==
    ASSUME Typed, ReleaseInv, [Next]_vars, UNCHANGED held, pc \in DispatchPCs, NextChannel,
           log'[<<subject, chan>>] # "absent" \/ <<subject, chan>> \in faulted'
    PROVE  ReleaseInv'
<1>1. ASSUME NEW r \in Releases, held'[r] # None, held'[r].released PROVE AllAnswered(r)'
    BY <1>1, RowStays DEF ReleaseInv, Typed, TypeOK
<1>2. CASE row = None
    BY <1>1, <1>2 DEF NextChannel, Dispatch, Idle, ReleaseInv, DispatchPCs
<1>3. CASE row # None
  <2>1. PICK r \in Releases : r = row /\ held[r] \in HeldRow
      BY <1>3 DEF Typed, TypeOK, LocalsFit
  <2>2. PICK cs \in Seq(Channels), a \in Alarms : cs = held[r].channels /\ a = held[r].alarm_id
      BY <2>1, HeldPairs
  <2>3. PICK n \in 1..Len(cs) : AtChannel(r, n)
      BY <1>3, <2>1, <2>2 DEF ReleaseInv
  <2>4. PICK q \in Seq(Channels) : q = todo
      BY DEF Typed, TypeOK
  <2>5. ASSUME NEW k \in 1..n PROVE log'[<<a, cs[k]>>] # "absent" \/ <<a, cs[k]>> \in faulted'
    <3>1. CASE k = n
        BY <2>2, <2>3, <3>1 DEF AtChannel
    <3>2. CASE k # n
      <4>1. k \in 1..n - 1 /\ k \in 1..Len(cs)
          BY <3>2
      <4>2. LoggedOrFaulted(<<a, cs[k]>>) /\ <<a, cs[k]>> \in Pairs
          BY <2>1, <2>2, <2>3, <4>1, HeldPairs DEF AtChannel
      <4> QED BY <4>2, AnswersStay DEF LoggedOrFaulted
    <3> QED BY <3>1, <3>2
  <2>6. /\ q = <<>> => n = Len(cs)
        /\ q # <<>> => /\ n + 1 \in 1..Len(cs) /\ Head(q) = cs[n + 1]
                       /\ Len(Tail(q)) = Len(cs) - (n + 1)
                       /\ \A j \in 1..Len(Tail(q)) : Tail(q)[j] = cs[n + 1 + j]
    <3>1. Len(q) = Len(cs) - n /\ \A j \in 1..Len(q) : q[j] = cs[n + j]
        BY <2>2, <2>3, <2>4 DEF AtChannel
    <3> QED BY <3>1, NextPlace
  <2>7. CASE q = <<>>
    <3>1. pc' = "mark_released" /\ row' = r
        BY <1>3, <2>1, <2>4, <2>7 DEF NextChannel, Dispatch
    <3>2. AllAnswered(r)'
        BY <2>2, <2>5, <2>6, <2>7 DEF AllAnswered, LoggedOrFaulted
    <3>3. AllAnswered(row)'
        BY <3>1, <3>2 DEF AllAnswered
    <3> QED BY <1>1, <3>1, <3>3 DEF ReleaseInv, DispatchPCs
  <2>8. CASE q # <<>>
    <3>1. /\ pc' = "try_insert" /\ row' = r /\ subject' = a /\ chan' = Head(q) /\ todo' = Tail(q)
        BY <1>3, <2>1, <2>2, <2>3, <2>4, <2>8 DEF NextChannel, Dispatch, AtChannel
    <3>2. n + 1 \in 1..Len(cs)
        BY <2>6, <2>8
    <3>3. \A k \in 1..n + 1 - 1 : LoggedOrFaulted(<<subject, cs[k]>>)'
        BY <2>5, <3>1 DEF LoggedOrFaulted
    <3>4. AtChannel(row, n + 1)'
        BY <2>2, <2>6, <2>8, <3>1, <3>3 DEF AtChannel, LoggedOrFaulted
    <3> QED BY <1>1, <2>2, <3>1, <3>2, <3>4 DEF ReleaseInv, DispatchPCs
  <2> QED BY <2>7, <2>8
<1> QED BY <1>2, <1>3
\* The dispatcher marks a row only after the last of its channels.
LEMMA DispatcherReleases == Typed /\ ReleaseInv /\ Dispatcher => ReleaseInv'
<1> SUFFICES ASSUME Typed, ReleaseInv, Dispatcher PROVE ReleaseInv'
    OBVIOUS
<1> USE DispatcherAssumption
<1>0. [Next]_vars
    BY DEF Next
<1>1. CASE ReceiveAlarm
  <2>1. /\ UNCHANGED held /\ pc' # "mark_released"
        /\ pc' \in DispatchPCs => row' = None
      BY <1>1 DEF ReceiveAlarm, Dispatch, Idle, DispatchPCs
  <2> QED BY <1>0, <2>1, ReleaseKept
<1>2. CASE HoldRow
  <2>1. /\ row \in Releases /\ pc' = "hold_fire"
        /\ \A r \in Releases : r # row => held'[r] = held[r]
        /\ held'[row].released = FALSE
      BY <1>2 DEF HoldRow, Typed, TypeOK, LocalsFit
  <2>2. ASSUME NEW r \in Releases, held'[r] # None, held'[r].released PROVE AllAnswered(r)'
    <3>1. r # row /\ held'[r] = held[r]
        BY <2>1, <2>2
    <3>2. held[r] \in HeldRow /\ AllAnswered(r)
        BY <2>2, <3>1 DEF ReleaseInv, Typed, TypeOK
    <3> QED BY <1>0, <3>1, <3>2, RowStays
  <2> QED BY <2>1, <2>2 DEF ReleaseInv, DispatchPCs
<1>3. CASE HoldFire \/ ReceiveRelease
    BY <1>0, <1>3, ReleaseKept DEF HoldFire, ReceiveRelease, Idle, DispatchPCs
<1>4. CASE FindHeld
  <2>1. cur \in Releases /\ UNCHANGED held
      BY <1>4 DEF FindHeld, Typed, LocalsFit
  <2>2. CASE Idle
      BY <1>0, <2>1, <2>2, ReleaseKept DEF Idle, DispatchPCs
  <2>3. CASE held[cur] # None /\ Dispatch(held[cur].channels, cur, held[cur].alarm_id, cur)
    <3>1. PICK r \in Releases : r = cur /\ held[r] \in HeldRow
        BY <2>1, <2>3 DEF Typed, TypeOK
    <3>2. PICK cs \in Seq(Channels), a \in Alarms : cs = held[r].channels /\ a = held[r].alarm_id
        BY <3>1, HeldPairs
    <3>3. ASSUME NEW s \in Releases, held'[s] # None, held'[s].released PROVE AllAnswered(s)'
        BY <1>0, <2>1, <3>3, RowStays DEF ReleaseInv, Typed, TypeOK
    <3>4. CASE cs = <<>>
      <4>1. pc' = "mark_released" /\ row' = r
          BY <2>3, <3>1, <3>2, <3>4 DEF Dispatch
      <4>2. AllAnswered(row)'
        <5>1. Len(cs) = 0 /\ held'[row'].channels = cs
            BY <2>1, <3>2, <3>4, <4>1
        <5> QED BY <5>1 DEF AllAnswered
      <4> QED BY <3>3, <4>1, <4>2 DEF ReleaseInv, DispatchPCs
    <3>5. CASE cs # <<>>
      <4>1. /\ pc' = "try_insert" /\ row' = r /\ subject' = a
            /\ chan' = Head(cs) /\ todo' = Tail(cs)
          BY <2>3, <3>1, <3>2, <3>5 DEF Dispatch
      <4>2. /\ 1 \in 1..Len(cs) /\ Head(cs) = cs[1] /\ Len(Tail(cs)) = Len(cs) - 1
            /\ \A j \in 1..Len(Tail(cs)) : Tail(cs)[j] = cs[1 + j]
          BY <3>5
      <4>3. AtChannel(row, 1)'
          BY <2>1, <3>2, <4>1, <4>2 DEF AtChannel
      <4> QED BY <2>1, <3>2, <3>3, <4>1, <4>2, <4>3 DEF ReleaseInv, DispatchPCs
    <3> QED BY <3>4, <3>5
  <2> QED BY <1>4, <2>2, <2>3 DEF FindHeld
<1>5. CASE TryInsert \/ RecordAck \/ RecordError
  <2>1. /\ UNCHANGED held /\ pc \in DispatchPCs /\ <<subject, chan>> \in Pairs
        /\ log \in [Pairs -> LogStates]
      BY <1>5 DEF TryInsert, RecordAck, RecordError, DispatchPCs, Typed, TypeOK, LocalsFit, Pairs
  <2>2. CASE NextChannel
    <3>1. log'[<<subject, chan>>] # "absent"
        BY <1>5, <2>1 DEF TryInsert, RecordAck, RecordError
    <3> QED BY <1>0, <2>1, <2>2, <3>1, ReleaseAdvances
  <2>3. CASE pc' = "deliver" /\ UNCHANGED <<cur, subject, chan, todo, attempt, row>>
      BY <1>0, <2>1, <2>3, ReleaseKept
  <2> QED BY <1>5, <2>2, <2>3 DEF TryInsert, RecordAck, RecordError
<1>6. CASE DeliverOk \/ DeliverFails
    BY <1>0, <1>6, ReleaseKept DEF DeliverOk, DeliverFails, DispatchPCs
<1>7. CASE MarkReleased
  <2>1. PICK r \in Releases : r = row /\ held[r] \in HeldRow
      BY <1>7 DEF MarkReleased, Typed, LocalsFit
  <2>2. /\ held' = [held EXCEPT ![r] = [held[r] EXCEPT !.released = TRUE]] /\ pc' = "recv"
        /\ AllAnswered(r) /\ UNCHANGED <<log, faulted>>
      BY <1>7, <2>1 DEF MarkReleased, Idle, history, ReleaseInv
  <2>3. /\ held'[r].channels = held[r].channels /\ held'[r].alarm_id = held[r].alarm_id
        /\ \A s \in Releases : s # r => held'[s] = held[s]
      BY <2>1, <2>2 DEF Typed, TypeOK, HeldRow
  <2>4. AllAnswered(r)'
      BY <2>2, <2>3 DEF AllAnswered, LoggedOrFaulted
  <2>5. ASSUME NEW s \in Releases, held'[s] # None, held'[s].released PROVE AllAnswered(s)'
      BY <1>0, <2>3, <2>4, <2>5, RowStays DEF ReleaseInv, Typed, TypeOK
  <2> QED BY <2>2, <2>5 DEF ReleaseInv, DispatchPCs
<1> QED BY <1>1, <1>2, <1>3, <1>4, <1>5, <1>6, <1>7 DEF Dispatcher

LEMMA ReleaseStep == Typed /\ ReleaseInv /\ [Next]_vars => ReleaseInv'
<1> SUFFICES ASSUME Typed, ReleaseInv, [Next]_vars PROVE ReleaseInv'
    OBVIOUS
<1> USE DispatcherAssumption
<1>1. ASSUME UNCHANGED <<held, locals>> PROVE ReleaseInv'
  <2>1. CASE pc = "mark_released"
    <3>1. row \in Releases /\ held[row] \in HeldRow
        BY <2>1 DEF Typed, LocalsFit
    <3>2. PICK r \in Releases : r = row
        BY <3>1
    <3>3. AllAnswered(r)'
        BY <1>1, <2>1, <3>1, <3>2, RowStays DEF ReleaseInv
    <3>4. ASSUME NEW s \in Releases, held'[s] # None, held'[s].released PROVE AllAnswered(s)'
        BY <1>1, <3>4, RowStays DEF ReleaseInv, Typed, TypeOK
    <3> QED BY <1>1, <2>1, <3>2, <3>3, <3>4 DEF ReleaseInv, DispatchPCs, AllAnswered, locals
  <2>2. CASE pc # "mark_released"
      BY <1>1, <2>2, ReleaseKept DEF locals
  <2> QED BY <2>1, <2>2
<1>2. CASE Scheduler
    BY <1>1, <1>2 DEF Scheduler, AlarmScheduled, AlarmsWithdrawn, FireTaken, FireAnnounced,
       FireSettled, SchedulerFrame
<1>3. CASE StatementFails
  <2>1. CASE Idle
      BY <1>3, <2>1, ReleaseKept DEF StatementFails, Idle, DispatchPCs
  <2>2. CASE /\ pc \in {"try_insert", "record_ack", "record_error"} /\ NextChannel
             /\ faulted' = faulted \cup {<<subject, chan>>}
      BY <1>3, <2>2, ReleaseAdvances DEF StatementFails, DispatchPCs
  <2> QED BY <1>3, <2>1, <2>2 DEF StatementFails, GiveUp
<1>4. CASE ProcessCrash
    BY <1>4, ReleaseKept DEF ProcessCrash, tables, DispatchPCs
<1>5. CASE Launch
    BY <1>5, ReleaseKept DEF Launch, tables, DispatchPCs
<1>6. CASE ClockMoves \/ BusOverruns
    BY <1>1, <1>6 DEF ClockMoves, BusOverruns, tables
<1>7. CASE UNCHANGED vars
    BY <1>1, <1>7 DEF vars, tables
<1> QED BY <1>2, <1>3, <1>4, <1>5, <1>6, <1>7, DispatcherReleases DEF Next

LEMMA ReleaseInit == Init => ReleaseInv
BY DEF Init, ReleaseInv, DispatchPCs

\* A held row is marked released only when each of its channels has been logged,
\* unless a database error skipped one: whatever is retried, fails or is announced
\* again, the dispatcher goes through the whole list before it marks the row.
THEOREM ReleasesAreDispatched == Spec => []ReleasedWasDispatched
<1>1. ReleaseInv => ReleasedWasDispatched
    BY DEF ReleaseInv, AllAnswered, LoggedOrFaulted, ReleasedWasDispatched
<1> QED BY <1>1, TypeInit, TypeStep, ReleaseInit, ReleaseStep, PTL DEF Spec
=============================================================================
