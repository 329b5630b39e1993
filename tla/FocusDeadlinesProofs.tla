------------------------- MODULE FocusDeadlinesProofs -------------------------
(***************************************************************************)
(* Proofs about FocusDeadlines, for any tasks, callers, slots and hours.   *)
(***************************************************************************)
EXTENDS FocusDeadlines, TLAPS

(* A change, a row or an end about the n-th focus of t that leaves it the  *)
(* time left: about an earlier focus, or not over before the focus is.     *)
Fits(t, n, left) ==
    /\ n <= nth[t]
    /\ n = nth[t] /\ focus[t] # None /\ left # None => left >= focus[t]

ChangeFits(x) == Fits(x.task, x.nth, x.left)
RowFits(r) == r.nth <= nth[r.task] /\ (r.kind = "expire" => Fits(r.task, r.nth, r.left))
EndFits(e) == Fits(e.task, e.nth, 0)

\* Whatever is on its way between the tool, the rows and the ends of a focus
\* is about an earlier focus or in time.
AllFit ==
    /\ \A c \in Callers : call[c] # Idle => ChangeFits(call[c])
    /\ \A x \in Range(changes) : ChangeFits(x)
    /\ handling.stage # "idle" => ChangeFits(handling.change)
    /\ \A r \in handling.rows \cup fires : RowFits(r)
    /\ \A e \in Range(fired) \cup expired : EndFits(e)

\* The handler holds rows only while it inserts them, all of one task.
HandlingShape ==
    /\ handling.stage = "idle" => handling = NotHandling
    /\ handling.stage = "cancel" => handling.rows = {}
    /\ \A r \in handling.rows : r.task = handling.change.task

\* The change x tells what the row of its task says, or said until the focus
\* was over.
Says(x) ==
    /\ x.nth = nth[x.task]
    /\ x.left = focus[x.task] \/ (x.left = 0 /\ focus[x.task] = None)

Match(t, rows) ==
    /\ {f \in rows : f.left > 0} = Rows(t, focus[t], nth[t])
    /\ \A f \in rows : f.nth = nth[t]

\* The last change of a task that is not upset tells its focus wherever it is:
\* in the call, in the queue, with the handler; then the rows do, those the
\* handler has still to insert included.
CallSays(t) ==
    \A c \in Callers : call[c].task = t =>
        Says(call[c]) /\ \A d \in Callers : call[d].task = t => d = c
LastOf(t, i) == changes[i].task = t /\ \A j \in DOMAIN changes : j > i => changes[j].task # t
QueueSays(t) ==
    ~InCall(t) => \A i \in DOMAIN changes : LastOf(t, i) => Says(changes[i])
HandlerSays(t) ==
    ~Pending(t) /\ handling.stage = "cancel" /\ handling.change.task = t
        => Says(handling.change)
Held(t) == {r \in handling.rows : r.task = t}
RowsSay(t) ==
    ~Pending(t) /\ (handling.change.task = t => handling.stage = "insert")
        => Match(t, RowsOf(t) \cup Held(t))

Flow(t) == CallSays(t) /\ QueueSays(t) /\ HandlerSays(t) /\ RowsSay(t)

\* The rows of a task, those still to be inserted included, are of one focus.
OneFocus == \A f, g \in fires \cup handling.rows : f.task = g.task => f.nth = g.nth

IInv ==
    /\ TypeOK
    /\ AllFit
    /\ HandlingShape
    /\ OneFocus
    /\ \A t \in Tasks : t \notin disturbed => Flow(t)

USE DEF history

\* The elements of a sequence after an append and after a receive.
LEMMA RangeOfAppend ==
    ASSUME NEW S, NEW s \in Seq(S), NEW e \in S
    PROVE  Append(s, e) \in Seq(S) /\ Range(Append(s, e)) = Range(s) \cup {e}
<1>1. /\ Append(s, e) \in Seq(S) /\ Len(Append(s, e)) = Len(s) + 1
      /\ \A i \in 1..Len(s) : Append(s, e)[i] = s[i]
      /\ Append(s, e)[Len(s) + 1] = e
    OBVIOUS
<1>2. DOMAIN s = 1..Len(s) /\ DOMAIN Append(s, e) = 1..(Len(s) + 1) /\ Len(s) \in Nat
    BY <1>1
<1>3. 1..(Len(s) + 1) = 1..Len(s) \cup {Len(s) + 1}
    BY <1>2
<1> QED BY <1>1, <1>2, <1>3 DEF Range

LEMMA RangeOfTail ==
    ASSUME NEW S, NEW s \in Seq(S), s # <<>>
    PROVE  /\ Tail(s) \in Seq(S) /\ Range(Tail(s)) \subseteq Range(s)
           /\ Head(s) \in S /\ Head(s) \in Range(s)
<1>1. /\ Len(s) \in Nat /\ Len(s) > 0 /\ DOMAIN s = 1..Len(s) /\ Head(s) = s[1]
      /\ Tail(s) \in Seq(S) /\ Len(Tail(s)) = Len(s) - 1
      /\ \A i \in 1..(Len(s) - 1) : Tail(s)[i] = s[i + 1]
    OBVIOUS
<1>2. DOMAIN Tail(s) = 1..(Len(s) - 1)
    BY <1>1
<1>3. s[1] \in S
    BY <1>1
<1> QED BY <1>1, <1>2, <1>3 DEF Range

\* Time brings deadlines nearer and keeps their order.
LEMMA LaterFacts ==
    /\ None \notin Left
    /\ \A l \in Left, d \in Left : Later(l, d) \in Left
    /\ \A d \in Left : Later(None, d) = None
    /\ \A k, l \in Left, d \in Left : k <= l => Later(k, d) <= Later(l, d)
    /\ \A l \in Left, d \in Left : Later(l, d) > 0 => l > 0
BY FocusAssumption DEF Later, Left, None

LEMMA LaterType == ASSUME NEW l \in Left \cup {None}, NEW d \in Left
                   PROVE  Later(l, d) \in Left \cup {None}
BY LaterFacts

LEMMA AgedType == ASSUME NEW rows \in SUBSET Fire, NEW d \in Left
                  PROVE  Aged(rows, d) \in SUBSET Fire
<1>1. \A f \in Fire : [f EXCEPT !.left = Later(@, d)] \in Fire
    BY LaterFacts DEF Fire
<1> QED BY <1>1 DEF Aged

\* The rows of a focus are rows.
LEMMA RowsType ==
    ASSUME NEW c \in Change PROVE Rows(c.task, c.left, c.nth) \in SUBSET Fire
<1>1. CASE c.left <= 0
    BY <1>1 DEF Rows
<1>2. CASE ~(c.left <= 0)
    <2>1. c.left \in Left
        BY <1>2 DEF Change, None
    <2>2. \A h \in WarnHours : h < c.left => c.left - h \in Left
        BY <2>1, FocusAssumption DEF Left
    <2> QED BY <1>2, <2>1, <2>2 DEF Rows, Fire, Change
<1> QED BY <1>1, <1>2
-----------------------------------------------------------------------------
(* Type correctness.                                                       *)

LEMMA InitType == Init => TypeOK
<1> SUFFICES ASSUME Init PROVE TypeOK
    OBVIOUS
<1>1. /\ status \in [Tasks -> {"open", "done", "deleted"}]
      /\ focus \in [Tasks -> Left \cup {None}]
      /\ call \in [Callers -> Change \cup {Idle}]
      /\ nth \in [Tasks -> 0..MaxChanges]
    BY FocusAssumption DEF Init
<1>2. handling \in [change : Change \cup {Idle}, stage : {"idle", "cancel", "insert"},
                    rows : SUBSET Fire] /\ handling.stage = "idle"
    BY DEF Init, NotHandling
<1>3. changes \in Seq(Change) /\ fired \in Seq(Ended)
    BY DEF Init
<1> QED BY <1>1, <1>2, <1>3, FocusAssumption DEF Init, TypeOK

\* A fault is counted within its bound.
LEMMA FaultType ==
    ASSUME TypeOK, NEW ts \in SUBSET Tasks, Fault(ts)
    PROVE  faults' \in 0..MaxFaults /\ disturbed' \subseteq Tasks /\ nth' = nth
BY FocusAssumption DEF TypeOK, Fault, Upset

\* The handler's next state keeps its type.
LEMMA PreparedType ==
    ASSUME TypeOK, NEW c \in Change, NEW rows \in SUBSET Fire, Prepared(c, rows)
    PROVE  /\ handling' \in [change : Change \cup {Idle},
                             stage : {"idle", "cancel", "insert"}, rows : SUBSET Fire]
           /\ handling'.stage # "idle" => handling'.change # Idle
           /\ disturbed' \subseteq Tasks
<1>1. c.task \in Tasks /\ c # Idle
    BY FocusAssumption DEF Change, Idle, NoTask
<1>2. CASE rows = {}
    BY <1>1, <1>2 DEF Prepared, NotHandling, TypeOK
<1>3. CASE rows # {}
    BY <1>1, <1>3 DEF Prepared, TypeOK
<1> QED BY <1>2, <1>3

LEMMA NextRowType ==
    ASSUME TypeOK, NEW r, NextRow(r)
    PROVE  /\ handling' \in [change : Change \cup {Idle},
                             stage : {"idle", "cancel", "insert"}, rows : SUBSET Fire]
           /\ handling'.stage # "idle" => handling'.change # Idle
           /\ r \in Fire
<1>1. r \in Fire
    BY DEF TypeOK, NextRow
<1>2. CASE handling.rows = {r}
    BY <1>1, <1>2 DEF TypeOK, NextRow, NotHandling
<1>3. CASE handling.rows # {r}
    BY <1>1, <1>3 DEF TypeOK, NextRow
<1> QED BY <1>2, <1>3

\* Time keeps the types.
LEMMA AgeType ==
    ASSUME TypeOK, NEW d \in Left
    PROVE  /\ [t \in Tasks |-> Later(focus[t], d)] \in [Tasks -> Left \cup {None}]
           /\ Aged(fires, d) \in SUBSET Fire
           /\ \A c \in Change \cup {Idle} :
                /\ [c EXCEPT !.left = Later(@, d)] \in Change \cup {Idle}
                /\ c # Idle => [c EXCEPT !.left = Later(@, d)] \in Change
<1>1. [t \in Tasks |-> Later(focus[t], d)] \in [Tasks -> Left \cup {None}]
    BY LaterType DEF TypeOK
<1>2. Aged(fires, d) \in SUBSET Fire
    BY AgedType DEF TypeOK
<1>3. \A c \in Change : [c EXCEPT !.left = Later(@, d)] \in Change
    BY LaterType DEF Change
<1>4. [Idle EXCEPT !.left = Later(@, d)] = Idle
    BY LaterFacts DEF Idle
<1> QED BY <1>1, <1>2, <1>3, <1>4

\* The change a call makes is a change.
LEMMA CallType ==
    ASSUME TypeOK, NEW c \in Callers, NEW x \in Change,
           call' = [call EXCEPT ![c] = x] \/ call' = [call EXCEPT ![c] = Idle]
    PROVE  call' \in [Callers -> Change \cup {Idle}]
BY DEF TypeOK

\* What is begun keeps to its type.
LEMMA PendingType ==
    ASSUME TypeOK
    PROVE  /\ \A c \in Callers : call[c] # Idle => call[c] \in Change
           /\ handling.stage # "idle" => handling.change \in Change
           /\ \A x \in Change : x.task \in Tasks
           /\ \A e \in Ended : e.task \in Tasks
BY DEF TypeOK, Change, Ended

\* Every step keeps the types.
LEMMA TypeStep == ASSUME TypeOK, [Next]_vars PROVE TypeOK'
<1>1. ASSUME NEW c \in Callers, NEW t \in Tasks, Focus(c, t) PROVE TypeOK'
    <2>1. [task |-> t, left |-> Hours, nth |-> nth[t] + 1] \in Change
        BY <1>1, FocusAssumption DEF Focus, TypeOK, Change, Left
    <2>2. call' \in [Callers -> Change \cup {Idle}]
        BY <1>1, <2>1, CallType DEF Focus
    <2>3. /\ focus' \in [Tasks -> Left \cup {None}]
          /\ nth' \in [Tasks -> 0..MaxChanges]
        BY <1>1, FocusAssumption DEF Focus, TypeOK, Left
    <2>4. disturbed' \subseteq Tasks
        BY <1>1 DEF Focus, TypeOK, Upset, Races
    <2> QED BY <1>1, <2>2, <2>3, <2>4 DEF Focus, TypeOK
<1>2. ASSUME NEW c \in Callers, NEW t \in Tasks, Unfocus(c, t) PROVE TypeOK'
    <2>1. [task |-> t, left |-> None, nth |-> nth[t]] \in Change
        BY <1>2 DEF TypeOK, Change
    <2>2. call' \in [Callers -> Change \cup {Idle}]
        BY <1>2, <2>1, CallType DEF Unfocus
    <2>3. focus' \in [Tasks -> Left \cup {None}]
        BY <1>2 DEF Unfocus, TypeOK
    <2>4. disturbed' \subseteq Tasks
        BY <1>2 DEF Unfocus, TypeOK, Upset, Races
    <2> QED BY <1>2, <2>2, <2>3, <2>4 DEF Unfocus, TypeOK
<1>3. ASSUME NEW c \in Callers, Publish(c) PROVE TypeOK'
    <2>1. call[c] \in Change
        BY <1>3, PendingType DEF Publish
    <2>2. changes' \in Seq(Change)
        BY <1>3, <2>1, RangeOfAppend DEF Publish, TypeOK
    <2>3. call' \in [Callers -> Change \cup {Idle}]
        BY <1>3 DEF Publish, TypeOK
    <2> QED BY <1>3, <2>2, <2>3 DEF Publish, TypeOK
<1>4. ASSUME NEW c \in Callers, CallFails(c) PROVE TypeOK'
    <2>1. call[c].task \in Tasks
        BY <1>4, PendingType DEF CallFails
    <2>2. faults' \in 0..MaxFaults /\ disturbed' \subseteq Tasks /\ nth' = nth
        BY <1>4, <2>1, FaultType DEF CallFails
    <2>3. call' \in [Callers -> Change \cup {Idle}]
        BY <1>4 DEF CallFails, TypeOK
    <2> QED BY <1>4, <2>2, <2>3 DEF CallFails, TypeOK
<1>5. ASSUME NEW t \in Tasks, CompleteOrReopen(t) PROVE TypeOK'
    BY <1>5 DEF CompleteOrReopen, TypeOK
<1>6. ASSUME NEW t \in Tasks, Delete(t) PROVE TypeOK'
    BY <1>6 DEF Delete, TypeOK, Upset
<1>7. ASSUME Receive PROVE TypeOK'
    <2>1. Tail(changes) \in Seq(Change) /\ Head(changes) \in Change
        BY <1>7, RangeOfTail DEF Receive, TypeOK
    <2>2. Head(changes) # Idle
        BY <2>1, FocusAssumption DEF Change, Idle, NoTask
    <2> QED BY <1>7, <2>1, <2>2 DEF Receive, TypeOK
<1>8. ASSUME CancelRows PROVE TypeOK'
    <2>1. handling.change \in Change
        BY <1>8, PendingType DEF CancelRows
    <2>2. Rows(handling.change.task, handling.change.left, handling.change.nth) \in SUBSET Fire
        BY <2>1, RowsType
    <2>3. /\ handling' \in [change : Change \cup {Idle},
                            stage : {"idle", "cancel", "insert"}, rows : SUBSET Fire]
          /\ handling'.stage # "idle" => handling'.change # Idle
          /\ disturbed' \subseteq Tasks
        BY <1>8, <2>1, <2>2, PreparedType DEF CancelRows
    <2> QED BY <1>8, <2>3 DEF CancelRows, TypeOK
<1>9. ASSUME CancelFails PROVE TypeOK'
    <2>1. handling.change.task \in Tasks
        BY <1>9, PendingType DEF CancelFails
    <2>2. faults' \in 0..MaxFaults /\ disturbed' \subseteq Tasks /\ nth' = nth
        BY <1>9, <2>1, FaultType DEF CancelFails
    <2> QED BY <1>9, <2>2 DEF CancelFails, TypeOK, NotHandling
<1>10. ASSUME LoseChange PROVE TypeOK'
    <2>1. Tail(changes) \in Seq(Change) /\ Head(changes).task \in Tasks
        BY <1>10, RangeOfTail, PendingType DEF LoseChange, TypeOK
    <2>2. faults' \in 0..MaxFaults /\ disturbed' \subseteq Tasks /\ nth' = nth
        BY <1>10, <2>1, FaultType DEF LoseChange
    <2> QED BY <1>10, <2>1, <2>2 DEF LoseChange, TypeOK
<1>11. ASSUME NEW r \in handling.rows, InsertRow(r) PROVE TypeOK'
    BY <1>11, NextRowType DEF InsertRow, TypeOK
<1>12. ASSUME NEW r \in handling.rows, InsertFails(r) PROVE TypeOK'
    <2>1. r.task \in Tasks
        BY <1>12, NextRowType DEF InsertFails, Fire
    <2>2. faults' \in 0..MaxFaults /\ disturbed' \subseteq Tasks /\ nth' = nth
        BY <1>12, <2>1, FaultType DEF InsertFails
    <2> QED BY <1>12, <2>2, NextRowType DEF InsertFails, TypeOK
<1>13. ASSUME NEW f \in fires, FireRow(f) PROVE TypeOK'
    <2>1. [task |-> f.task, nth |-> f.nth] \in Ended
        BY <1>13 DEF TypeOK, Fire, Ended
    <2>2. fired' \in Seq(Ended)
        BY <1>13, <2>1, RangeOfAppend DEF FireRow, TypeOK
    <2> QED BY <1>13, <2>2 DEF FireRow, TypeOK
<1>14. ASSUME AlarmEnds PROVE TypeOK'
    <2>1. Tail(fired) \in Seq(Ended) /\ Head(fired).task \in Tasks
        BY <1>14, RangeOfTail, PendingType DEF AlarmEnds, TypeOK
    <2> QED BY <1>14, <2>1 DEF AlarmEnds, TypeOK, End, Upset
<1>15. ASSUME AlarmFails PROVE TypeOK'
    <2>1. Tail(fired) \in Seq(Ended) /\ Head(fired).task \in Tasks
        BY <1>15, RangeOfTail, PendingType DEF AlarmFails, TypeOK
    <2>2. faults' \in 0..MaxFaults /\ disturbed' \subseteq Tasks /\ nth' = nth
        BY <1>15, <2>1, FaultType DEF AlarmFails
    <2> QED BY <1>15, <2>1, <2>2 DEF AlarmFails, TypeOK
<1>16. ASSUME Poll PROVE TypeOK'
    BY <1>16 DEF Poll, TypeOK, Ended, Focused
<1>17. ASSUME NEW e \in expired, WatcherEnds(e) PROVE TypeOK'
    BY <1>17 DEF WatcherEnds, TypeOK, End, Upset, Ended
<1>18. ASSUME NEW e \in expired, WatcherFails(e) PROVE TypeOK'
    <2>1. faults' \in 0..MaxFaults /\ disturbed' \subseteq Tasks /\ nth' = nth
        BY <1>18, FaultType DEF WatcherFails
    <2> QED BY <1>18, <2>1 DEF WatcherFails, TypeOK
<1>19. ASSUME Tick PROVE TypeOK'
    <2>1. 1 \in Left
        BY FocusAssumption DEF Left
    <2>2. focus' \in [Tasks -> Left \cup {None}] /\ fires' \in SUBSET Fire
        BY <1>19, <2>1, AgeType DEF Tick
    <2>3. call' \in [Callers -> Change \cup {Idle}]
        BY <1>19, <2>1, AgeType DEF Tick, TypeOK
    <2>4. changes' \in Seq(Change)
        <3>1. /\ Len(changes) \in Nat /\ DOMAIN changes = 1..Len(changes)
              /\ \A i \in DOMAIN changes : changes[i] \in Change
            BY DEF TypeOK
        <3>2. \A i \in DOMAIN changes : [changes[i] EXCEPT !.left = Later(@, 1)] \in Change
            BY <3>1, <2>1, LaterType DEF Change
        <3> QED BY <1>19, <3>1, <3>2 DEF Tick
    <2>5. /\ handling' \in [change : Change \cup {Idle},
                            stage : {"idle", "cancel", "insert"}, rows : SUBSET Fire]
          /\ handling'.stage # "idle" => handling'.change # Idle
        <3> DEFINE x == [handling.change EXCEPT !.left = Later(@, 1)]
        <3>1. x \in Change \cup {Idle} /\ (handling.stage # "idle" => x \in Change)
            BY <2>1, AgeType, PendingType DEF TypeOK
        <3>2. Aged(handling.rows, 1) \in SUBSET Fire
            BY <2>1, AgedType DEF TypeOK
        <3>3. handling' = [change |-> x, stage |-> handling.stage,
                           rows |-> Aged(handling.rows, 1)]
            BY <1>19 DEF Tick, TypeOK
        <3>4. Idle \notin Change
            BY FocusAssumption DEF Idle, Change, NoTask
        <3> QED BY <3>1, <3>2, <3>3, <3>4 DEF TypeOK
    <2> QED BY <1>19, <2>2, <2>3, <2>4, <2>5 DEF Tick, TypeOK
<1>20. ASSUME NEW d \in Left, NEW missed, Restart(d, missed) PROVE TypeOK'
    <2>1. focus' \in [Tasks -> Left \cup {None}] /\ fires' \in SUBSET Fire
        BY <1>20, AgeType DEF Restart
    <2>2. InMemory \cup {f.task : f \in missed} \in SUBSET Tasks
        BY <1>20, AgeType DEF Restart, InMemory, Fire
    <2>3. faults' \in 0..MaxFaults /\ disturbed' \subseteq Tasks /\ nth' = nth
        BY <1>20, <2>2, FaultType DEF Restart
    <2>4. handling' \in [change : Change \cup {Idle},
                         stage : {"idle", "cancel", "insert"}, rows : SUBSET Fire]
          /\ handling'.stage = "idle"
        BY <1>20 DEF Restart, NotHandling
    <2>5. changes' \in Seq(Change) /\ fired' \in Seq(Ended)
        BY <1>20 DEF Restart
    <2> QED BY <1>20, <2>1, <2>3, <2>4, <2>5 DEF Restart, TypeOK
<1>21. ASSUME UNCHANGED vars PROVE TypeOK'
    BY <1>21 DEF vars, TypeOK
<1> QED BY <1>1, <1>2, <1>3, <1>4, <1>5, <1>6, <1>7, <1>8, <1>9, <1>10, <1>11, <1>12,
           <1>13, <1>14, <1>15, <1>16, <1>17, <1>18, <1>19, <1>20, <1>21 DEF Next

\* For any tasks, callers and bounds every variable keeps its type.
THEOREM TypeCorrect == Spec => []TypeOK
<1>1. Init => TypeOK
    BY InitType
<1>2. TypeOK /\ [Next]_vars => TypeOK'
    BY TypeStep
<1> QED BY <1>1, <1>2, PTL DEF Spec
-----------------------------------------------------------------------------
(* The handler's state and the order of the focuses.                       *)

\* What is left of a row when time has passed.
LEMMA AgedRow ==
    ASSUME NEW rows \in SUBSET Fire, NEW d \in Left, NEW g \in Aged(rows, d)
    PROVE  \E f \in rows : /\ g.task = f.task /\ g.nth = f.nth /\ g.kind = f.kind
                           /\ g.left = Later(f.left, d)
<1>1. PICK f \in rows : g = [f EXCEPT !.left = Later(@, d)]
    BY DEF Aged
<1>2. f \in Fire
    OBVIOUS
<1>3. /\ g.task = f.task /\ g.nth = f.nth /\ g.kind = f.kind
      /\ g.left = Later(f.left, d)
    BY <1>1, <1>2 DEF Fire
<1> QED BY <1>3

\* What the handler does next, if it has rows to insert.
LEMMA NextRowShape ==
    ASSUME TypeOK, HandlingShape, NEW r, NextRow(r)
    PROVE  /\ HandlingShape'
           /\ r.task = handling.change.task
           /\ handling'.rows = handling.rows \ {r}
           /\ handling'.stage = "idle" \/ (handling'.change = handling.change
                                           /\ handling'.stage = "insert")
<1>1. CASE handling.rows = {r}
    BY <1>1 DEF NextRow, NotHandling, HandlingShape
<1>2. CASE handling.rows # {r}
    <2>1. /\ handling'.rows = handling.rows \ {r} /\ handling'.change = handling.change
          /\ handling'.stage = "insert"
        BY <1>2 DEF NextRow, TypeOK
    <2> QED BY <2>1 DEF NextRow, HandlingShape
<1> QED BY <1>1, <1>2

\* The rows of a focus are of its task and number, and ahead.
LEMMA RowsOfFocus ==
    ASSUME NEW c \in Change, NEW r \in Rows(c.task, c.left, c.nth)
    PROVE  /\ r.task = c.task /\ r.nth = c.nth /\ r.left > 0 /\ c.left \in Left
           /\ r.kind = "expire" => r.left = c.left
<1>1. c.left \in Left /\ ~(c.left <= 0)
    BY DEF Rows, Change, None
<1>2. CASE r.kind = "expire"
    BY <1>1, <1>2, FocusAssumption DEF Rows, Left
<1>3. CASE r.kind # "expire"
    BY <1>1, <1>3, FocusAssumption DEF Rows, Left
<1> QED BY <1>1, <1>2, <1>3

\* The handler at the end of a cancel.
LEMMA PreparedShape ==
    ASSUME TypeOK, NEW c \in Change,
           Prepared(c, Rows(c.task, c.left, c.nth))
    PROVE  /\ HandlingShape'
           /\ handling'.rows = Rows(c.task, c.left, c.nth)
           /\ handling'.stage # "cancel"
           /\ handling'.stage # "idle" => handling'.change = c
<1> DEFINE rows == Rows(c.task, c.left, c.nth)
<1>1. CASE rows = {}
    BY <1>1 DEF Prepared, NotHandling, HandlingShape
<1>2. CASE rows # {}
    BY <1>2, RowsOfFocus DEF Prepared, HandlingShape
<1> QED BY <1>1, <1>2

\* The passing of time and the handler.
LEMMA TickHandling ==
    ASSUME TypeOK, HandlingShape, Tick
    PROVE  /\ HandlingShape'
           /\ handling'.rows = Aged(handling.rows, 1)
           /\ handling'.stage = handling.stage
           /\ handling'.change = [handling.change EXCEPT !.left = Later(@, 1)]
           /\ handling'.change.task = handling.change.task
           /\ handling'.change.nth = handling.change.nth
           /\ handling'.change.left = Later(handling.change.left, 1)
<1>1. 1 \in Left
    BY FocusAssumption DEF Left
<1>2. /\ handling'.rows = Aged(handling.rows, 1)
      /\ handling'.stage = handling.stage
      /\ handling'.change = [handling.change EXCEPT !.left = Later(@, 1)]
    BY DEF Tick, TypeOK
<1>3. /\ handling'.change.task = handling.change.task
      /\ handling'.change.nth = handling.change.nth
      /\ handling'.change.left = Later(handling.change.left, 1)
    BY <1>2 DEF TypeOK, Change, Idle
<1>4. ASSUME handling.stage = "idle" PROVE handling' = NotHandling
    <2>1. handling = NotHandling
        BY <1>4 DEF HandlingShape
    <2>2. Aged({}, 1) = {}
        BY DEF Aged
    <2>3. [Idle EXCEPT !.left = Later(@, 1)] = Idle
        BY <1>1, LaterFacts DEF Idle
    <2> QED BY <2>1, <2>2, <2>3 DEF Tick, NotHandling
<1>5. ASSUME handling.stage = "cancel" PROVE handling'.rows = {}
    BY <1>2, <1>5 DEF HandlingShape, Aged
<1>6. ASSUME NEW r \in handling'.rows PROVE r.task = handling'.change.task
    BY <1>1, <1>2, <1>3, AgedRow, SMTT(30) DEF HandlingShape, TypeOK
<1> QED BY <1>2, <1>3, <1>4, <1>5, <1>6 DEF HandlingShape

\* Every step keeps the shape of the handler's state.
LEMMA ShapeStep == ASSUME TypeOK, HandlingShape, [Next]_vars PROVE HandlingShape'
<1>1. CASE UNCHANGED handling
    BY <1>1 DEF HandlingShape
<1>2. CASE Receive
    BY <1>2 DEF Receive, HandlingShape
<1>3. CASE CancelRows
    BY <1>3, PendingType, PreparedShape DEF CancelRows
<1>4. CASE CancelFails
    BY <1>4 DEF CancelFails, HandlingShape, NotHandling
<1>5. ASSUME NEW r \in handling.rows, NextRow(r) PROVE HandlingShape'
    BY <1>5, NextRowShape
<1>6. CASE Tick
    BY <1>6, TickHandling
<1>7. ASSUME NEW d \in Left, NEW missed, Restart(d, missed) PROVE HandlingShape'
    BY <1>7 DEF Restart, HandlingShape, NotHandling
<1> QED
    BY <1>1, <1>2, <1>3, <1>4, <1>5, <1>6, <1>7
    DEF Next, vars, Focus, Unfocus, Publish, CallFails, CompleteOrReopen, Delete, LoseChange,
        InsertRow, InsertFails, FireRow, AlarmEnds, AlarmFails, Poll, WatcherEnds, WatcherFails

\* A step that ends focuses or begins new ones leaves what fits fitting.
LEMMA FitsKept ==
    ASSUME TypeOK, TypeOK',
           \A t \in Tasks : \/ nth'[t] = nth[t] /\ focus'[t] \in {focus[t], None}
                            \/ nth'[t] > nth[t],
           NEW t \in Tasks, NEW n \in 0..MaxChanges, NEW left \in Left \cup {None},
           Fits(t, n, left)
    PROVE  Fits(t, n, left)'
<1>1. nth[t] \in Nat /\ nth'[t] \in Nat /\ n \in Nat
    BY FocusAssumption DEF TypeOK
<1>2. CASE nth'[t] > nth[t]
    BY <1>1, <1>2 DEF Fits
<1>3. CASE nth'[t] = nth[t] /\ focus'[t] \in {focus[t], None}
    BY <1>3 DEF Fits
<1> QED BY <1>2, <1>3

\* So does the passing of time.
LEMMA FitsAged ==
    ASSUME TypeOK, NEW d \in Left, nth' = nth,
           focus' = [t \in Tasks |-> Later(focus[t], d)],
           NEW t \in Tasks, NEW n \in 0..MaxChanges, NEW left \in Left \cup {None},
           Fits(t, n, left)
    PROVE  Fits(t, n, Later(left, d))'
<1>1. focus[t] \in Left \cup {None} /\ focus'[t] = Later(focus[t], d)
    BY DEF TypeOK
<1>2. CASE focus[t] = None \/ left = None
    BY <1>1, <1>2, LaterFacts DEF Fits
<1>3. CASE focus[t] # None /\ left # None
    <2>1. /\ focus[t] \in Left /\ left \in Left
          /\ Later(left, d) \in Left /\ Later(focus[t], d) \in Left
        BY <1>1, <1>3, LaterFacts
    <2>2. n = nth[t] => focus[t] <= left
        BY <1>3, <2>1 DEF Fits, Left
    <2>3. n = nth[t] => Later(focus[t], d) <= Later(left, d)
        BY <2>1, <2>2, LaterFacts
    <2> QED BY <1>1, <2>1, <2>3 DEF Fits, Left
<1> QED BY <1>2, <1>3

\* What a step takes over fits on, if the step ends or begins focuses.
LEMMA AllKept ==
    ASSUME TypeOK, TypeOK', AllFit,
           \A t \in Tasks : \/ nth'[t] = nth[t] /\ focus'[t] \in {focus[t], None}
                            \/ nth'[t] > nth[t]
    PROVE  /\ \A x \in Change : ChangeFits(x) => ChangeFits(x)'
           /\ \A r \in Fire : RowFits(r) => RowFits(r)'
           /\ \A e \in Ended : EndFits(e) => EndFits(e)'
<1>1. 0 \in Left
    BY FocusAssumption DEF Left
<1>2. ASSUME NEW x \in Change, ChangeFits(x) PROVE ChangeFits(x)'
    BY <1>2, FitsKept DEF ChangeFits, Change
<1>3. ASSUME NEW r \in Fire, RowFits(r) PROVE RowFits(r)'
    <2>1. r.task \in Tasks /\ r.nth \in 0..MaxChanges /\ r.left \in Left
        BY DEF Fire
    <2>2. r.nth <= nth'[r.task]
        <3>1. r.nth \in Nat /\ nth[r.task] \in Nat /\ nth'[r.task] \in Nat
            BY <2>1, FocusAssumption DEF TypeOK
        <3>2. nth'[r.task] = nth[r.task] \/ nth'[r.task] > nth[r.task]
            BY <2>1
        <3>3. r.nth <= nth[r.task]
            BY <1>3 DEF RowFits
        <3> QED BY <3>1, <3>2, <3>3
    <2>3. r.kind = "expire" => Fits(r.task, r.nth, r.left)'
        BY <1>3, <2>1, FitsKept DEF RowFits
    <2> QED BY <2>2, <2>3 DEF RowFits
<1>4. ASSUME NEW e \in Ended, EndFits(e) PROVE EndFits(e)'
    BY <1>1, <1>4, FitsKept DEF EndFits, Ended
<1> QED BY <1>2, <1>3, <1>4

\* The same for a step in which d ticks pass.
LEMMA AllAged ==
    ASSUME TypeOK, AllFit, NEW d \in Left, nth' = nth,
           focus' = [t \in Tasks |-> Later(focus[t], d)]
    PROVE  /\ \A x \in Change : ChangeFits(x) => ChangeFits([x EXCEPT !.left = Later(@, d)])'
           /\ \A rows \in SUBSET Fire :
                (\A r \in rows : RowFits(r)) => \A r \in Aged(rows, d) : RowFits(r)'
           /\ \A e \in Ended : EndFits(e) => EndFits(e)'
<1>1. 0 \in Left /\ Later(0, d) = 0
    BY FocusAssumption DEF Left, Later, None
<1>2. ASSUME NEW x \in Change, ChangeFits(x)
      PROVE  ChangeFits([x EXCEPT !.left = Later(@, d)])'
    <2> DEFINE y == [x EXCEPT !.left = Later(@, d)]
    <2>1. /\ y.task = x.task /\ y.nth = x.nth /\ y.left = Later(x.left, d)
          /\ x.task \in Tasks /\ x.nth \in 0..MaxChanges /\ x.left \in Left \cup {None}
        BY DEF Change
    <2>2. Fits(x.task, x.nth, Later(x.left, d))'
        BY <1>2, <2>1, FitsAged DEF ChangeFits
    <2> QED BY <2>1, <2>2 DEF ChangeFits
<1>3. ASSUME NEW rows \in SUBSET Fire, \A r \in rows : RowFits(r), NEW g \in Aged(rows, d)
      PROVE  RowFits(g)'
    <2>1. PICK f \in rows : /\ g.task = f.task /\ g.nth = f.nth /\ g.kind = f.kind
                            /\ g.left = Later(f.left, d)
        BY AgedRow
    <2>2. f.task \in Tasks /\ f.nth \in 0..MaxChanges /\ f.left \in Left
        BY DEF Fire
    <2>3. f.kind = "expire" => Fits(f.task, f.nth, Later(f.left, d))'
        BY <1>3, <2>2, FitsAged DEF RowFits
    <2> QED BY <1>3, <2>1, <2>3 DEF RowFits
<1>4. ASSUME NEW e \in Ended, EndFits(e) PROVE EndFits(e)'
    <2>1. Fits(e.task, e.nth, Later(0, d))'
        BY <1>1, <1>4, FitsAged DEF EndFits, Ended
    <2> QED BY <1>1, <2>1 DEF EndFits
<1> QED BY <1>2, <1>3, <1>4

\* Every step keeps AllFit: what it adds is about the focus as it is then.
LEMMA FitStep == ASSUME TypeOK, HandlingShape, AllFit, [Next]_vars PROVE AllFit'
<1> USE PendingType
<1>0. TypeOK'
    BY TypeStep
<1>a. /\ \A c \in Callers : call[c] # Idle => call[c] \in Change /\ ChangeFits(call[c])
      /\ Range(changes) \subseteq Change /\ \A x \in Range(changes) : ChangeFits(x)
      /\ handling.stage # "idle" => handling.change \in Change /\ ChangeFits(handling.change)
      /\ handling.rows \cup fires \subseteq Fire /\ \A r \in handling.rows \cup fires : RowFits(r)
      /\ Range(fired) \cup expired \subseteq Ended
      /\ \A e \in Range(fired) \cup expired : EndFits(e)
    BY DEF TypeOK, AllFit, Range
<1> DEFINE Kept == \A t \in Tasks : \/ nth'[t] = nth[t] /\ focus'[t] \in {focus[t], None}
                                    \/ nth'[t] > nth[t]
<1>b. ASSUME Kept
      PROVE  /\ \A x \in Change : ChangeFits(x) => ChangeFits(x)'
             /\ \A r \in Fire : RowFits(r) => RowFits(r)'
             /\ \A e \in Ended : EndFits(e) => EndFits(e)'
    BY <1>b, <1>0, AllKept
<1>c. ASSUME Kept, UNCHANGED <<call, changes, handling, fires, fired, expired>> PROVE AllFit'
    BY <1>a, <1>b, <1>c DEF AllFit, ChangeFits, RowFits, EndFits, Fits
<1>1. ASSUME NEW c \in Callers, NEW t \in Tasks, Focus(c, t) PROVE AllFit'
    <2>1. Kept
        BY <1>1, FocusAssumption DEF Focus, TypeOK
    <2>2. PICK x \in Change : x = [task |-> t, left |-> Hours, nth |-> nth[t] + 1]
        BY <1>1, FocusAssumption, SMTT(30) DEF Focus, TypeOK, Change, Left
    <2>3. ChangeFits(x)'
        BY <1>1, <2>2, FocusAssumption DEF Focus, TypeOK, ChangeFits, Fits
    <2>4. call' = [call EXCEPT ![c] = x]
        BY <1>1, <2>2 DEF Focus
    <2> QED BY <1>1, <2>1, <2>3, <2>4, <1>a, <1>b DEF Focus, TypeOK, AllFit, ChangeFits, RowFits, EndFits, Fits
<1>2. ASSUME NEW c \in Callers, NEW t \in Tasks, Unfocus(c, t) PROVE AllFit'
    <2>1. Kept
        BY <1>2 DEF Unfocus, TypeOK
    <2>2. ChangeFits([task |-> t, left |-> None, nth |-> nth[t]])'
        BY <1>2, FocusAssumption DEF Unfocus, TypeOK, ChangeFits, Fits
    <2> QED BY <1>2, <2>1, <2>2, <1>a, <1>b DEF Unfocus, TypeOK, AllFit, ChangeFits, RowFits, EndFits, Fits
<1>3. ASSUME NEW c \in Callers, Publish(c) PROVE AllFit'
    <2>1. Kept
        BY <1>3 DEF Publish
    <2>2. Range(changes') = Range(changes) \cup {call[c]}
        BY <1>3, <1>a, RangeOfAppend DEF Publish, TypeOK
    <2> QED BY <1>3, <2>1, <2>2, <1>a, <1>b DEF Publish, TypeOK, AllFit, ChangeFits, RowFits, EndFits, Fits
<1>4. ASSUME NEW c \in Callers, CallFails(c) PROVE AllFit'
    <2>1. Kept
        BY <1>4 DEF CallFails, Fault
    <2> QED BY <1>4, <2>1, <1>a, <1>b DEF CallFails, TypeOK, AllFit, ChangeFits, RowFits, EndFits, Fits
<1>5. ASSUME NEW t \in Tasks, CompleteOrReopen(t) PROVE AllFit'
    BY <1>5, <1>c DEF CompleteOrReopen
<1>6. ASSUME NEW t \in Tasks, Delete(t) PROVE AllFit'
    <2>1. Kept
        BY <1>6 DEF Delete, TypeOK
    <2> QED BY <1>6, <2>1, <1>c DEF Delete
<1>7. ASSUME Receive PROVE AllFit'
    <2>1. Kept
        BY <1>7 DEF Receive
    <2>2. Range(changes') \subseteq Range(changes) /\ Head(changes) \in Range(changes)
        BY <1>7, RangeOfTail DEF Receive, TypeOK
    <2>3. handling'.change = Head(changes) /\ handling'.rows = {}
        BY <1>7 DEF Receive
    <2> QED BY <1>7, <2>1, <2>2, <2>3, <1>a, <1>b DEF Receive, AllFit, ChangeFits, RowFits, EndFits, Fits
<1>8. ASSUME CancelRows PROVE AllFit'
    <2>0. PICK c \in Change : c = handling.change /\ ChangeFits(c)
        BY <1>8, <1>a DEF CancelRows
    <2>1. Kept
        BY <1>8 DEF CancelRows
    <2>2. ChangeFits(c)'
        BY <2>0, <2>1, <1>b
    <2>3. /\ handling'.rows = Rows(c.task, c.left, c.nth)
          /\ handling'.stage # "idle" => handling'.change = c
        BY <1>8, <2>0, PreparedShape DEF CancelRows
    <2>4. ASSUME NEW r \in Rows(c.task, c.left, c.nth) PROVE RowFits(r)'
        <3>1. r.task = c.task /\ r.nth = c.nth /\ (r.kind = "expire" => r.left = c.left)
            BY RowsOfFocus
        <3> QED BY <2>2, <3>1 DEF RowFits, ChangeFits, Fits
    <2>5. fires' \subseteq fires
        BY <1>8 DEF CancelRows
    <2>6. \A r \in handling'.rows \cup fires' : RowFits(r)'
        BY <2>1, <2>3, <2>4, <2>5, <1>a, <1>b
    <2>7. handling'.stage # "idle" => ChangeFits(handling.change)'
        BY <2>2, <2>3 DEF ChangeFits, Fits
    <2> QED BY <1>8, <2>1, <2>6, <2>7, <1>a, <1>b DEF CancelRows, AllFit, ChangeFits, RowFits, EndFits, Fits
<1>9. ASSUME CancelFails PROVE AllFit'
    <2>1. Kept /\ handling'.rows = {} /\ handling'.stage = "idle"
        BY <1>9 DEF CancelFails, Fault, NotHandling
    <2> QED BY <1>9, <2>1, <1>a, <1>b DEF CancelFails, AllFit, ChangeFits, RowFits, EndFits, Fits
<1>10. ASSUME LoseChange PROVE AllFit'
    <2>1. Kept
        BY <1>10 DEF LoseChange, Fault
    <2>2. Range(changes') \subseteq Range(changes)
        BY <1>10, RangeOfTail DEF LoseChange, TypeOK
    <2> QED BY <1>10, <2>1, <2>2, <1>a, <1>b DEF LoseChange, AllFit, ChangeFits, RowFits, EndFits, Fits
<1>11. ASSUME NEW r \in handling.rows, NextRow(r), UNCHANGED <<focus, call, changes, fired, expired, nth>>,
              fires' \subseteq fires \cup {r}
       PROVE  AllFit'
    <2>1. Kept
        BY <1>11
    <2>2. /\ handling'.rows = handling.rows \ {r}
          /\ handling'.stage = "idle" \/ (handling'.change = handling.change
                                          /\ handling'.stage = "insert")
        BY <1>11, NextRowShape
    <2>3. handling.stage = "insert"
        BY <1>11 DEF NextRow
    <2>4. \A s \in handling'.rows \cup fires' : RowFits(s)'
        BY <1>11, <2>1, <2>2, <1>a, <1>b
    <2>5. handling'.stage # "idle" => ChangeFits(handling.change)'
        BY <2>1, <2>2, <2>3, <1>a, <1>b DEF ChangeFits, Fits
    <2> QED BY <1>11, <2>1, <2>4, <2>5, <1>a, <1>b DEF AllFit, ChangeFits, RowFits, EndFits, Fits
<1>12. ASSUME NEW r \in handling.rows, InsertRow(r) \/ InsertFails(r) PROVE AllFit'
    BY <1>11, <1>12 DEF InsertRow, InsertFails, Fault
<1>13. ASSUME NEW f \in fires, FireRow(f) PROVE AllFit'
    <2>1. Kept
        BY <1>13 DEF FireRow
    <2>2. fires' \subseteq fires
        BY <1>13 DEF FireRow
    <2>3. CASE f.kind # "expire"
        BY <1>13, <2>1, <2>2, <2>3, <1>a, <1>b DEF FireRow, AllFit, ChangeFits, RowFits, EndFits, Fits
    <2>4. CASE f.kind = "expire"
        <3> DEFINE e == [task |-> f.task, nth |-> f.nth]
        <3>1. e \in Ended
            BY <1>a DEF Fire, Ended
        <3>2. Range(fired') = Range(fired) \cup {e}
            BY <1>13, <2>4, <3>1, RangeOfAppend DEF FireRow, TypeOK
        <3>3. EndFits(e)
            BY <1>13, <1>a, <2>4 DEF FireRow, EndFits, RowFits
        <3> QED BY <1>13, <2>1, <2>2, <3>1, <3>2, <3>3, <1>a, <1>b
                DEF FireRow, AllFit, ChangeFits, RowFits, EndFits, Fits
    <2> QED BY <2>3, <2>4
<1>14. ASSUME AlarmEnds \/ AlarmFails PROVE AllFit'
    <2>1. Kept
        BY <1>14 DEF AlarmEnds, AlarmFails, Fault, End, TypeOK
    <2>2. Range(fired') \subseteq Range(fired)
        BY <1>14, RangeOfTail DEF AlarmEnds, AlarmFails, TypeOK
    <2> QED BY <1>14, <2>1, <2>2, <1>a, <1>b
            DEF AlarmEnds, AlarmFails, AllFit, ChangeFits, RowFits, EndFits, Fits
<1>15. ASSUME Poll PROVE AllFit'
    <2>1. Kept
        BY <1>15 DEF Poll
    <2>2. \A e \in expired' : EndFits(e)'
        BY <1>15, FocusAssumption DEF Poll, EndFits, Fits, TypeOK, Focused
    <2> QED BY <1>15, <2>1, <2>2, <1>a, <1>b DEF Poll, AllFit, ChangeFits, RowFits, EndFits, Fits
<1>16. ASSUME NEW e \in expired, WatcherEnds(e) \/ WatcherFails(e) PROVE AllFit'
    <2>1. Kept
        BY <1>16 DEF WatcherEnds, WatcherFails, Fault, End, TypeOK
    <2> QED BY <1>16, <2>1, <1>a, <1>b
            DEF WatcherEnds, WatcherFails, AllFit, ChangeFits, RowFits, EndFits, Fits
<1>17. ASSUME Tick PROVE AllFit'
    <2>0. 1 \in Left
        BY FocusAssumption DEF Left
    <2>1. /\ \A x \in Change : ChangeFits(x) => ChangeFits([x EXCEPT !.left = Later(@, 1)])'
          /\ \A rows \in SUBSET Fire :
               (\A r \in rows : RowFits(r)) => \A r \in Aged(rows, 1) : RowFits(r)'
          /\ \A e \in Ended : EndFits(e) => EndFits(e)'
        BY <1>17, <2>0, AllAged DEF Tick
    <2>2. ASSUME NEW c \in Callers, call'[c] # Idle PROVE ChangeFits(call[c])'
        <3>1. call'[c] = [call[c] EXCEPT !.left = Later(@, 1)]
            BY <1>17 DEF Tick
        <3>2. call[c] # Idle
            BY <2>2, <3>1, LaterFacts, <2>0, SMTT(30) DEF Idle
        <3> QED BY <3>1, <3>2, <2>1, <1>a DEF ChangeFits, Fits
    <2>3. ASSUME NEW x \in Range(changes') PROVE ChangeFits(x)'
        <3>1. PICK i \in DOMAIN changes' : x = changes'[i]
            BY DEF Range
        <3>2. i \in DOMAIN changes /\ x = [changes[i] EXCEPT !.left = Later(@, 1)]
            BY <1>17, <3>1 DEF Tick
        <3>3. changes[i] \in Range(changes)
            BY <3>2 DEF Range
        <3> QED BY <3>2, <3>3, <2>1, <1>a
    <2>4. handling'.stage # "idle" => ChangeFits(handling.change)'
        <3>1. /\ handling'.stage = handling.stage
              /\ handling'.change = [handling.change EXCEPT !.left = Later(@, 1)]
            BY <1>17, TickHandling
        <3> QED BY <3>1, <2>1, <1>a DEF ChangeFits, Fits
    <2>5. \A r \in handling'.rows \cup fires' : RowFits(r)'
        <3>1. handling'.rows = Aged(handling.rows, 1) /\ fires' = Aged(fires, 1)
            BY <1>17, TickHandling DEF Tick
        <3> QED BY <3>1, <2>1, <1>a
    <2>6. \A e \in Range(fired') \cup expired' : EndFits(e)'
        BY <1>17, <2>1, <1>a DEF Tick
    <2> QED BY <2>2, <2>3, <2>4, <2>5, <2>6 DEF AllFit, ChangeFits, RowFits, EndFits, Fits
<1>18. ASSUME NEW d \in Left, NEW missed, Restart(d, missed) PROVE AllFit'
    <2>1. \A rows \in SUBSET Fire :
               (\A r \in rows : RowFits(r)) => \A r \in Aged(rows, d) : RowFits(r)'
        BY <1>18, AllAged DEF Restart, Fault
    <2>2. \A r \in fires' : RowFits(r)'
        BY <1>18, <2>1, <1>a DEF Restart
    <2>3. Range(changes') = {} /\ Range(fired') = {}
        BY <1>18 DEF Restart, Range
    <2>4. handling'.stage = "idle" /\ handling'.rows = {}
        BY <1>18 DEF Restart, NotHandling
    <2> QED BY <1>18, <2>2, <2>3, <2>4 DEF Restart, AllFit, ChangeFits, RowFits, EndFits, Fits
<1>19. ASSUME UNCHANGED vars PROVE AllFit'
    BY <1>19, <1>c DEF vars
<1> QED BY <1>1, <1>2, <1>3, <1>4, <1>5, <1>6, <1>7, <1>8, <1>9, <1>10, <1>12,
           <1>13, <1>14, <1>15, <1>16, <1>17, <1>18, <1>19 DEF Next

\* A step of a state in which all fits cuts short no focus but one that is
\* newer than the end it has in hand.
LEMMA EndsStep ==
    ASSUME TypeOK, AllFit, [Next]_vars, NEW t \in Tasks,
           focus[t] > 0, focus'[t] = None, call' = call, status' = status
    PROVE  \E e \in Range(fired) \cup expired : e.task = t /\ e.nth < nth[t]
<1>0. /\ focus[t] \in Left /\ focus[t] # None /\ focus'[t] # focus[t]
      /\ None \notin Left
    BY FocusAssumption DEF TypeOK, Left, None
<1>a. ASSUME NEW e \in Range(fired) \cup expired, e.task = t PROVE e.nth < nth[t]
    <2>1. EndFits(e) /\ e \in Ended
        BY DEF AllFit, TypeOK, Range
    <2>2. e.nth \in Nat /\ nth[t] \in Nat /\ e.nth <= nth[t]
        BY <1>a, <2>1, FocusAssumption DEF TypeOK, Ended, EndFits, Fits
    <2>3. e.nth # nth[t]
        BY <1>0, <1>a, <2>1, FocusAssumption DEF EndFits, Fits, Left, None
    <2> QED BY <2>2, <2>3
<1>1. ASSUME NEW c \in Callers, NEW u \in Tasks, Unfocus(c, u) PROVE FALSE
    <2>1. [task |-> u, left |-> None, nth |-> nth[u]] # Idle
        BY FocusAssumption DEF Idle, NoTask
    <2> QED BY <1>1, <2>1 DEF Unfocus, TypeOK
<1>2. ASSUME NEW c \in Callers, NEW u \in Tasks, Focus(c, u) PROVE FALSE
    BY <1>0, <1>2, FocusAssumption DEF Focus, TypeOK, None
<1>3. ASSUME NEW u \in Tasks, Delete(u) PROVE FALSE
    BY <1>3 DEF Delete, TypeOK
<1>4. ASSUME Tick PROVE FALSE
    <2>1. 1 \in Left
        BY FocusAssumption DEF Left
    <2>2. focus'[t] = Later(focus[t], 1)
        BY <1>4 DEF Tick
    <2> QED BY <2>1, <2>2, <1>0, LaterFacts
<1>5. ASSUME NEW d \in Left, NEW missed, Restart(d, missed) PROVE FALSE
    <2>1. focus'[t] = Later(focus[t], d)
        BY <1>5 DEF Restart
    <2> QED BY <2>1, <1>0, LaterFacts
<1>6. ASSUME AlarmEnds
      PROVE \E e \in Range(fired) \cup expired : e.task = t /\ e.nth < nth[t]
    <2>1. Head(fired) \in Range(fired)
        BY <1>6, RangeOfTail DEF AlarmEnds, TypeOK
    <2>2. Head(fired).task = t
        BY <1>0, <1>6 DEF AlarmEnds, End, TypeOK
    <2> QED BY <2>1, <2>2, <1>a
<1>7. ASSUME NEW e \in expired, WatcherEnds(e)
      PROVE e.task = t /\ e.nth < nth[t]
    <2>1. e.task = t
        BY <1>0, <1>7 DEF WatcherEnds, End, TypeOK
    <2> QED BY <2>1, <1>a
<1> QED
    BY <1>0, <1>1, <1>2, <1>3, <1>4, <1>5, <1>6, <1>7
    DEF Next, vars, Publish, CallFails, CompleteOrReopen, Receive, CancelRows, CancelFails,
        LoseChange, InsertRow, InsertFails, FireRow, AlarmFails, Poll, WatcherFails
-----------------------------------------------------------------------------
(* The flow of changes.                                                    *)

LEMMA IdleTask == \A t \in Tasks : Idle.task # t /\ NotHandling.change.task # t
BY FocusAssumption DEF Idle, NotHandling, NoTask

\* A focus that is over asks for the same rows as none.
LEMMA RowsOver ==
    ASSUME NEW t, NEW n PROVE Rows(t, 0, n) = {} /\ Rows(t, None, n) = {}
BY DEF Rows, None

\* A step that takes from task t at most a focus that is over and rows that
\* are due leaves its flow as it is.
LEMMA FlowKept ==
    ASSUME TypeOK, NEW t \in Tasks, Flow(t), UNCHANGED <<changes, handling>>,
           nth'[t] = nth[t],
           focus'[t] = focus[t] \/ (focus[t] = 0 /\ focus'[t] = None),
           \A c \in Callers : call[c].task = t \/ call'[c].task = t => call'[c] = call[c],
           RowsOf(t)' \subseteq RowsOf(t),
           \A f \in RowsOf(t) : f.left > 0 => f \in RowsOf(t)'
    PROVE  Flow(t)'
<1>1. ASSUME NEW x, x.task = t, Says(x) PROVE Says(x)'
    BY <1>1 DEF Says
<1>2. InCall(t)' = InCall(t) /\ Pending(t)' = Pending(t)
    BY DEF InCall, Pending
<1>3. CallSays(t)'
    BY <1>1 DEF Flow, CallSays, Says
<1>4. QueueSays(t)'
    BY <1>1, <1>2 DEF Flow, QueueSays, LastOf, Says
<1>5. HandlerSays(t)'
    BY <1>1, <1>2 DEF Flow, HandlerSays, Says
<1>6. RowsSay(t)'
    <2>1. Rows(t, focus'[t], nth'[t]) = Rows(t, focus[t], nth[t])
        BY RowsOver
    <2>2. SUFFICES ASSUME Match(t, RowsOf(t) \cup Held(t)) PROVE Match(t, RowsOf(t) \cup Held(t))'
        BY <1>2 DEF Flow, RowsSay
    <2>3. Held(t)' = Held(t)
        BY DEF Held
    <2> QED BY <2>1, <2>2, <2>3 DEF Match
<1> QED BY <1>3, <1>4, <1>5, <1>6 DEF Flow

\* The queue less its head.
LEMMA TailLast ==
    ASSUME TypeOK, changes # <<>>, changes' = Tail(changes), NEW t \in Tasks
    PROVE  /\ \A i \in DOMAIN changes' : /\ i + 1 \in DOMAIN changes
                                         /\ changes'[i] = changes[i + 1]
                                         /\ LastOf(t, i)' => LastOf(t, i + 1)
           /\ \A j \in DOMAIN changes : j > 1 => changes[j] \in Range(changes')
           /\ 1 \in DOMAIN changes /\ changes[1] = Head(changes)
<1>1. /\ Len(changes) \in Nat /\ Len(changes) > 0 /\ DOMAIN changes = 1..Len(changes)
      /\ Head(changes) = changes[1]
      /\ changes' \in Seq(Change) /\ Len(changes') = Len(changes) - 1
      /\ \A i \in 1..(Len(changes) - 1) : changes'[i] = changes[i + 1]
    BY DEF TypeOK
<1>2. DOMAIN changes' = 1..(Len(changes) - 1)
    BY <1>1
<1>3. ASSUME NEW i \in DOMAIN changes' PROVE i + 1 \in DOMAIN changes /\ changes'[i] = changes[i + 1]
    BY <1>1, <1>2
<1>4. ASSUME NEW j \in DOMAIN changes, j > 1
      PROVE  j - 1 \in DOMAIN changes' /\ changes'[j - 1] = changes[j]
    BY <1>1, <1>2, <1>4
<1>5. ASSUME NEW i \in DOMAIN changes', LastOf(t, i)' PROVE LastOf(t, i + 1)
    <2>1. changes[i + 1].task = t
        BY <1>3, <1>5 DEF LastOf
    <2>2. ASSUME NEW j \in DOMAIN changes, j > i + 1 PROVE changes[j].task # t
        <3>1. i \in Nat /\ j \in Nat /\ i > 0
            BY <1>1, <1>2
        <3>2. j - 1 > i /\ j > 1
            BY <3>1, <2>2
        <3> QED BY <3>2, <1>4, <1>5 DEF LastOf
    <2> QED BY <2>1, <2>2 DEF LastOf
<1>6. \A j \in DOMAIN changes : j > 1 => changes[j] \in Range(changes')
    BY <1>4 DEF Range
<1> QED BY <1>1, <1>3, <1>5, <1>6

\* The queue with one more at its end.
LEMMA AppendLast ==
    ASSUME TypeOK, NEW x \in Change, changes' = Append(changes, x), NEW t \in Tasks
    PROVE  /\ Range(changes') = Range(changes) \cup {x}
           /\ \A i \in DOMAIN changes' : LastOf(t, i)' =>
                IF x.task = t THEN changes'[i] = x
                ELSE i \in DOMAIN changes /\ changes'[i] = changes[i] /\ LastOf(t, i)
<1>1. /\ Len(changes) \in Nat /\ DOMAIN changes = 1..Len(changes)
      /\ DOMAIN changes' = 1..(Len(changes) + 1)
      /\ \A i \in 1..Len(changes) : changes'[i] = changes[i]
      /\ changes'[Len(changes) + 1] = x
    BY DEF TypeOK
<1>2. Range(changes') = Range(changes) \cup {x}
    BY RangeOfAppend DEF TypeOK
<1>3. ASSUME NEW i \in DOMAIN changes', LastOf(t, i)', x.task = t PROVE changes'[i] = x
    <2>1. Len(changes) + 1 \in DOMAIN changes' /\ i \in Nat /\ i <= Len(changes) + 1
        BY <1>1
    <2>2. ~(Len(changes) + 1 > i)
        BY <2>1, <1>1, <1>3 DEF LastOf
    <2>3. i = Len(changes) + 1
        BY <1>1, <2>1, <2>2
    <2> QED BY <2>3, <1>1
<1>4. ASSUME NEW i \in DOMAIN changes', LastOf(t, i)', x.task # t
      PROVE  i \in DOMAIN changes /\ changes'[i] = changes[i] /\ LastOf(t, i)
    <2>1. i # Len(changes) + 1
        BY <1>1, <1>4 DEF LastOf
    <2>2. i \in DOMAIN changes /\ changes'[i] = changes[i]
        BY <1>1, <2>1
    <2>3. \A j \in DOMAIN changes : j \in DOMAIN changes' /\ changes'[j] = changes[j]
        BY <1>1
    <2> QED BY <1>4, <2>2, <2>3 DEF LastOf
<1> QED BY <1>2, <1>3, <1>4

\* A call that changes the row of a task has its own change to tell of it.
LEMMA ChangeFlow ==
    ASSUME TypeOK, NEW t \in Tasks, t \notin disturbed => Flow(t), t \notin disturbed',
           NEW c \in Callers, NEW u \in Tasks, Focus(c, u) \/ Unfocus(c, u)
    PROVE  Flow(t)'
<1>0. call[c].task # t /\ t \notin disturbed
    BY IdleTask DEF Focus, Unfocus, Upset
<1>1. CASE u # t
    <2>1. nth'[t] = nth[t] /\ focus'[t] = focus[t]
        BY <1>1 DEF Focus, Unfocus, TypeOK
    <2>2. call'[c].task # t /\ \A d \in Callers : d # c => call'[d] = call[d]
        BY <1>1 DEF Focus, Unfocus, TypeOK
    <2>3. RowsOf(t)' = RowsOf(t)
        BY DEF Focus, Unfocus, RowsOf
    <2> QED BY <1>0, <2>1, <2>2, <2>3, FlowKept DEF Focus, Unfocus
<1>2. CASE u = t
    <2>1. ~InCall(t)
        BY <1>2 DEF Focus, Unfocus, Upset, Races
    <2>2. call'[c].task = t /\ \A d \in Callers : d # c => call'[d].task # t
        BY <1>2, <2>1 DEF Focus, Unfocus, TypeOK, InCall
    <2>3. call'[c].nth = nth'[t] /\ call'[c].left = focus'[t]
        BY <1>2 DEF Focus, Unfocus, TypeOK
    <2>4. InCall(t)' /\ Pending(t)'
        BY <2>2 DEF InCall, Pending
    <2>5. CallSays(t)'
        BY <2>2, <2>3 DEF CallSays, Says
    <2> QED BY <2>4, <2>5 DEF Flow, QueueSays, HandlerSays, RowsSay
<1> QED BY <1>1, <1>2

LEMMA PublishFlow ==
    ASSUME TypeOK, NEW t \in Tasks, Flow(t), NEW c \in Callers, Publish(c)
    PROVE  Flow(t)'
<1>1. PICK x \in Change : x = call[c] /\ changes' = Append(changes, x)
    BY PendingType DEF Publish
<1>2. /\ Range(changes') = Range(changes) \cup {x}
      /\ \A i \in DOMAIN changes' : LastOf(t, i)' =>
           IF x.task = t THEN changes'[i] = x
           ELSE i \in DOMAIN changes /\ changes'[i] = changes[i] /\ LastOf(t, i)
    BY <1>1, AppendLast
<1>3. call'[c].task # t /\ \A d \in Callers : d # c => call'[d] = call[d]
    BY IdleTask DEF Publish, TypeOK
<1>4. ASSUME NEW y, y.task = t, Says(y) PROVE Says(y)'
    BY <1>4 DEF Says, Publish
<1>5. CallSays(t)'
    BY <1>3, <1>4 DEF Flow, CallSays, Says
<1>6. CASE x.task = t
    <2>1. Says(x)
        BY <1>1, <1>6 DEF Flow, CallSays
    <2>2. Says(x)'
        BY <1>4, <1>6, <2>1
    <2>3. QueueSays(t)'
        BY <1>2, <1>6, <2>2 DEF QueueSays, Says
    <2>4. Pending(t)'
        BY <1>2, <1>6 DEF Pending
    <2> QED BY <1>5, <2>3, <2>4 DEF Flow, HandlerSays, RowsSay
<1>7. CASE x.task # t
    <2>1. InCall(t)' = InCall(t)
        BY <1>1, <1>3, <1>7 DEF InCall
    <2>2. Pending(t)' = Pending(t)
        BY <1>2, <1>7, <2>1 DEF Pending
    <2>3. QueueSays(t)'
        BY <1>2, <1>4, <1>7, <2>1 DEF Flow, QueueSays, LastOf, Says
    <2>4. HandlerSays(t)'
        BY <2>2 DEF Flow, HandlerSays, Says, Publish
    <2>5. RowsSay(t)'
        BY <2>2 DEF Flow, RowsSay, Match, RowsOf, Held, Publish
    <2> QED BY <1>5, <2>3, <2>4, <2>5 DEF Flow
<1> QED BY <1>6, <1>7

\* focus_alarms takes the next change up, or loses it.
LEMMA TailFlow ==
    ASSUME TypeOK, HandlingShape, NEW t \in Tasks, Flow(t),
           Receive \/ (LoseChange /\ Head(changes).task # t)
    PROVE  Flow(t)'
<1>0. changes # <<>> /\ changes' = Tail(changes) /\ UNCHANGED <<call, focus, nth, fires>>
    BY DEF Receive, LoseChange, Fault
<1>1. /\ \A i \in DOMAIN changes' : /\ i + 1 \in DOMAIN changes
                                    /\ changes'[i] = changes[i + 1]
                                    /\ LastOf(t, i)' => LastOf(t, i + 1)
      /\ \A j \in DOMAIN changes : j > 1 => changes[j] \in Range(changes')
      /\ 1 \in DOMAIN changes /\ changes[1] = Head(changes)
    BY <1>0, TailLast
<1>2. InCall(t)' = InCall(t)
    BY <1>0 DEF InCall
<1>3. CallSays(t)'
    BY <1>0 DEF Flow, CallSays, Says
<1>4. QueueSays(t)'
    BY <1>0, <1>1, <1>2 DEF Flow, QueueSays, Says
<1>5. CASE Head(changes).task = t
    <2>1. handling'.change = Head(changes) /\ handling'.stage = "cancel"
        BY <1>5 DEF Receive
    <2>2. ASSUME ~Pending(t)' PROVE Says(handling.change)'
        <3>1. ~InCall(t) /\ \A x \in Range(changes') : x.task # t
            BY <1>2, <2>2 DEF Pending
        <3>2. \A j \in DOMAIN changes : j > 1 => changes[j].task # t
            BY <1>1, <3>1
        <3>3. LastOf(t, 1)
            BY <1>1, <1>5, <3>2 DEF LastOf
        <3>4. Says(Head(changes))
            BY <1>1, <3>1, <3>3 DEF Flow, QueueSays
        <3> QED BY <1>0, <2>1, <3>4 DEF Says
    <2>3. HandlerSays(t)' /\ RowsSay(t)'
        BY <1>5, <2>1, <2>2 DEF HandlerSays, RowsSay
    <2> QED BY <1>3, <1>4, <2>3 DEF Flow
<1>6. CASE Head(changes).task # t
    <2>0. \A j \in DOMAIN changes : j = 1 \/ j > 1
        BY DEF TypeOK
    <2>1. (\E x \in Range(changes') : x.task = t) <=> (\E x \in Range(changes) : x.task = t)
        BY <1>1, <1>6, <1>0, <2>0, RangeOfTail DEF Range, TypeOK
    <2>2. Pending(t)' = Pending(t)
        BY <1>2, <2>1 DEF Pending
    <2>3. CASE LoseChange
        <3>1. handling' = handling
            BY <2>3 DEF LoseChange
        <3>2. HandlerSays(t)'
            BY <1>0, <2>2, <3>1 DEF Flow, HandlerSays, Says
        <3>3. RowsSay(t)'
            BY <1>0, <2>2, <3>1 DEF Flow, RowsSay, Match, RowsOf, Held
        <3> QED BY <1>3, <1>4, <3>2, <3>3 DEF Flow
    <2>4. CASE Receive
        <3>1. /\ handling'.change.task # t /\ handling'.rows = {}
              /\ handling.change.task # t /\ handling.rows = {}
            BY <1>6, <2>4, IdleTask DEF Receive, HandlingShape, NotHandling
        <3>2. HandlerSays(t)'
            BY <3>1 DEF HandlerSays
        <3>3. RowsSay(t)'
            BY <1>0, <2>2, <3>1 DEF Flow, RowsSay, Match, RowsOf, Held
        <3> QED BY <1>3, <1>4, <3>2, <3>3 DEF Flow
    <2> QED BY <2>3, <2>4
<1> QED BY <1>5, <1>6

\* After the cancel the rows are those the last change asks for.
LEMMA CancelFlow ==
    ASSUME TypeOK, HandlingShape, NEW t \in Tasks, t \notin disturbed => Flow(t),
           t \notin disturbed', CancelRows
    PROVE  Flow(t)'
<1>0. PICK c \in Change : c = handling.change
    BY PendingType DEF CancelRows
<1>1. /\ fires' = fires \ RowsOf(c.task)
      /\ Prepared(c, Rows(c.task, c.left, c.nth))
      /\ UNCHANGED <<status, focus, call, changes, fired, expired, nth, faults>>
      /\ handling.stage = "cancel"
    BY <1>0 DEF CancelRows
<1>2. /\ HandlingShape' /\ handling'.rows = Rows(c.task, c.left, c.nth)
      /\ handling'.stage # "cancel"
      /\ handling'.stage # "idle" => handling'.change = c
    BY <1>1, PreparedShape
<1>3. Pending(t)' = Pending(t) /\ InCall(t)' = InCall(t)
    BY <1>1 DEF Pending, InCall
<1>4. HandlerSays(t)'
    BY <1>2 DEF HandlerSays
<1>5. CASE c.task # t
    <2>1. t \notin disturbed
        BY <1>1, <1>5 DEF Prepared
    <2>2. CallSays(t)' /\ QueueSays(t)'
        BY <1>1, <1>3, <2>1 DEF Flow, CallSays, QueueSays, LastOf, Says
    <2>3. Held(t)' = {} /\ Held(t) = {}
        BY <1>0, <1>1, <1>2, <1>5, RowsOfFocus DEF Held, HandlingShape
    <2>4. RowsOf(t)' = RowsOf(t)
        BY <1>1, <1>5 DEF RowsOf
    <2>5. RowsSay(t)'
        BY <1>0, <1>1, <1>3, <1>5, <2>1, <2>3, <2>4 DEF Flow, RowsSay, Match
    <2> QED BY <1>4, <2>2, <2>5 DEF Flow
<1>6. CASE c.task = t /\ ~Pending(t)
    <2>1. c.left # 0
        BY <1>1, <1>6 DEF Prepared
    <2>2. c.nth = nth[t] /\ c.left = focus[t]
        <3>1. CASE LastWord(c)
            BY <1>6, <3>1 DEF LastWord
        <3>2. CASE ~LastWord(c)
            <4>1. t \notin disturbed
                BY <1>1, <1>6, <2>1, <3>2 DEF Prepared
            <4>2. Says(c)
                BY <1>0, <1>1, <1>6, <4>1 DEF Flow, HandlerSays
            <4> QED BY <1>6, <2>1, <4>2 DEF Says
        <3> QED BY <3>1, <3>2
    <2>3. RowsOf(t)' = {}
        BY <1>1, <1>6 DEF RowsOf
    <2>4. Held(t)' = Rows(t, focus'[t], nth'[t])
        BY <1>1, <1>2, <1>6, <2>2, RowsOfFocus DEF Held
    <2>5. \A r \in Rows(t, focus'[t], nth'[t]) : r.left > 0 /\ r.nth = nth'[t]
        BY <1>1, <1>6, <2>2, RowsOfFocus
    <2>6. Match(t, RowsOf(t) \cup Held(t))'
        BY <2>3, <2>4, <2>5 DEF Match
    <2>7. ~InCall(t)' /\ \A i \in DOMAIN changes' : changes'[i].task # t
        BY <1>1, <1>3, <1>6 DEF Pending, Range
    <2>8. CallSays(t)' /\ QueueSays(t)'
        BY <2>7 DEF CallSays, QueueSays, InCall, LastOf
    <2> QED BY <1>4, <2>6, <2>8 DEF Flow, RowsSay
<1>7. CASE c.task = t /\ Pending(t)
    <2>1. t \notin disturbed
        BY <1>1, <1>7 DEF Prepared, LastWord
    <2>2. CallSays(t)' /\ QueueSays(t)'
        BY <1>1, <1>3, <2>1 DEF Flow, CallSays, QueueSays, LastOf, Says
    <2> QED BY <1>3, <1>4, <1>7, <2>2 DEF Flow, RowsSay
<1> QED BY <1>5, <1>6, <1>7

\* A row inserted, or lost to a task that is then upset, was counted already.
LEMMA RowFlow ==
    ASSUME TypeOK, HandlingShape, NEW t \in Tasks, Flow(t),
           NEW r \in handling.rows, InsertRow(r) \/ (InsertFails(r) /\ r.task # t)
    PROVE  Flow(t)'
<1>1. /\ HandlingShape'
      /\ r.task = handling.change.task
      /\ handling'.rows = handling.rows \ {r}
      /\ handling'.stage = "idle" \/ (handling'.change = handling.change
                                      /\ handling'.stage = "insert")
      /\ handling.stage = "insert"
    BY NextRowShape DEF InsertRow, InsertFails, NextRow
<1>2. UNCHANGED <<focus, nth, call, changes>>
    BY DEF InsertRow, InsertFails, Fault
<1>3. Pending(t)' = Pending(t) /\ InCall(t)' = InCall(t)
    BY <1>2 DEF Pending, InCall
<1>4. CallSays(t)' /\ QueueSays(t)'
    BY <1>2, <1>3 DEF Flow, CallSays, QueueSays, LastOf, Says
<1>5. HandlerSays(t)'
    BY <1>1 DEF HandlerSays
<1>6. RowsOf(t)' \cup Held(t)' = RowsOf(t) \cup Held(t)
    BY <1>1 DEF InsertRow, InsertFails, RowsOf, Held
<1>7. RowsSay(t)'
    BY <1>1, <1>2, <1>3, <1>6 DEF Flow, RowsSay, Match
<1> QED BY <1>4, <1>5, <1>7 DEF Flow

\* The rows still ahead, some time later, are those the focus then asks for.
LEMMA RowsAged ==
    ASSUME NEW t \in Tasks, NEW n \in 0..MaxChanges, NEW l \in Left \cup {None},
           NEW d \in Left, NEW rows \in SUBSET Fire,
           {f \in rows : f.left > 0} = Rows(t, l, n)
    PROVE  {f \in Aged(rows, d) : f.left > 0} = Rows(t, Later(l, d), n)
<1> DEFINE Row(k, h, left) == [task |-> t, kind |-> k, hour |-> h, left |-> left, nth |-> n]
<1>1. CASE l = None \/ l <= d
    <2>1. Rows(t, Later(l, d), n) = {}
        <3>1. CASE l = None
            BY <3>1, RowsOver, LaterFacts
        <3>2. CASE l # None /\ l <= d
            BY <3>2, RowsOver DEF Later, Left, None
        <3> QED BY <1>1, <3>1, <3>2
    <2>2. ASSUME NEW f \in rows, Later(f.left, d) > 0 PROVE FALSE
        <3>1. f.left \in Left /\ f.left > 0
            BY <2>2, LaterFacts DEF Fire
        <3>2. f \in Rows(t, l, n)
            BY <3>1
        <3>3. l \in Left /\ l > 0 /\ f.left <= l
            BY <3>2, FocusAssumption DEF Rows, Left, None
        <3>4. f.left <= d
            BY <1>1, <3>1, <3>3, FocusAssumption DEF Left, None
        <3> QED BY <2>2, <3>1, <3>4 DEF Later, Left, None
    <2>3. \A g \in Aged(rows, d) : ~(g.left > 0)
        BY <2>2, AgedRow
    <2> QED BY <2>1, <2>3
<1>2. CASE l # None /\ ~(l <= d)
    <2>1. l \in Nat /\ d \in Nat /\ l > d /\ Later(l, d) = l - d /\ l - d \in Left /\ l \in Left
        BY <1>2, FocusAssumption DEF Left, Later, None
    <2>2. /\ Rows(t, l, n) = {Row("warning", h, l - h) : h \in {h \in WarnHours : h < l}}
                             \cup {Row("expire", 0, l)}
          /\ Rows(t, l - d, n) = {Row("warning", h, l - d - h) : h \in {h \in WarnHours : h < l - d}}
                                 \cup {Row("expire", 0, l - d)}
        BY <2>1 DEF Rows
    <2>3. \A k, h, left : [Row(k, h, left) EXCEPT !.left = Later(@, d)] = Row(k, h, Later(left, d))
        OBVIOUS
    <2>4. ASSUME NEW g \in Aged(rows, d), g.left > 0 PROVE g \in Rows(t, l - d, n)
        <3>1. PICK f \in rows : g = [f EXCEPT !.left = Later(@, d)]
            BY DEF Aged
        <3>2. f \in Fire /\ g.left = Later(f.left, d)
            BY <3>1 DEF Fire
        <3>3. f.left \in Left /\ f.left > 0
            BY <2>4, <3>2, LaterFacts DEF Fire
        <3>4. f \in Rows(t, l, n)
            BY <3>3
        <3>5. CASE f = Row("expire", 0, l)
            <4>1. g = Row("expire", 0, l - d)
                BY <2>1, <2>3, <3>1, <3>5
            <4> QED BY <2>2, <4>1
        <3>6. CASE f # Row("expire", 0, l)
            <4>1. PICK h \in WarnHours : h < l /\ f = Row("warning", h, l - h)
                BY <2>2, <3>4, <3>6
            <4>2. g = Row("warning", h, Later(l - h, d)) /\ Later(l - h, d) > 0
                BY <2>3, <2>4, <3>1, <4>1
            <4>3. h \in Nat /\ h < l - d /\ Later(l - h, d) = l - d - h
                BY <2>1, <4>1, <4>2, FocusAssumption DEF Later, Left, None
            <4> QED BY <2>2, <4>2, <4>3
        <3> QED BY <3>5, <3>6
    <2>5. ASSUME NEW r \in Rows(t, l - d, n) PROVE r \in Aged(rows, d) /\ r.left > 0
        <3>1. CASE r = Row("expire", 0, l - d)
            <4>1. Row("expire", 0, l) \in rows
                BY <2>2
            <4>2. r = [Row("expire", 0, l) EXCEPT !.left = Later(@, d)]
                BY <2>1, <2>3, <3>1
            <4>3. r.left > 0
                BY <2>1, <3>1
            <4> QED BY <4>1, <4>2, <4>3 DEF Aged
        <3>2. CASE r # Row("expire", 0, l - d)
            <4>1. PICK h \in WarnHours : h < l - d /\ r = Row("warning", h, l - d - h)
                BY <2>2, <3>2
            <4>2. h \in Nat /\ h < l /\ Later(l - h, d) = l - d - h /\ l - d - h > 0
                BY <2>1, <4>1, FocusAssumption DEF Later, Left, None
            <4>3. Row("warning", h, l - h) \in rows
                BY <2>2, <4>2
            <4>4. r = [Row("warning", h, l - h) EXCEPT !.left = Later(@, d)]
                BY <2>3, <4>1, <4>2
            <4>5. r.left > 0
                BY <4>1, <4>2
            <4> QED BY <4>3, <4>4, <4>5 DEF Aged
        <3> QED BY <3>1, <3>2
    <2> QED BY <2>1, <2>4, <2>5
<1> QED BY <1>1, <1>2

\* A match stays one when time passes.
LEMMA MatchAged ==
    ASSUME TypeOK, NEW t \in Tasks, NEW d \in Left, nth' = nth,
           focus' = [u \in Tasks |-> Later(focus[u], d)],
           NEW rows \in SUBSET Fire, Match(t, rows)
    PROVE  Match(t, Aged(rows, d))'
<1> DEFINE aged == Aged(rows, d)
<1>1. \A f \in aged : f.nth = nth'[t]
    BY AgedRow DEF Match
<1>2. {f \in aged : f.left > 0} = Rows(t, focus'[t], nth'[t])
    <2>1. focus[t] \in Left \cup {None} /\ nth[t] \in 0..MaxChanges
        BY DEF TypeOK
    <2>2. focus'[t] = Later(focus[t], d) /\ nth'[t] = nth[t]
        OBVIOUS
    <2>3. {f \in rows : f.left > 0} = Rows(t, focus[t], nth[t])
        BY DEF Match
    <2>4. {f \in aged : f.left > 0} = Rows(t, Later(focus[t], d), nth[t])
        BY <2>1, <2>3, RowsAged
    <2> QED BY <2>2, <2>4
<1> QED BY <1>1, <1>2 DEF Match

\* The rows of a task, some time later.
Of(rows, t) == {f \in rows : f.task = t}

LEMMA AgedOf ==
    ASSUME NEW rows \in SUBSET Fire, NEW d \in Left, NEW t
    PROVE  Of(Aged(rows, d), t) = Aged(Of(rows, t), d)
<1>1. \A f \in Fire : [f EXCEPT !.left = Later(@, d)].task = f.task
    BY DEF Fire
<1> QED BY <1>1 DEF Aged, Of

\* What a change says stays true while time passes for it and for the focus.
LEMMA SaysAged ==
    ASSUME TypeOK, NEW d \in Left, nth' = nth,
           focus' = [u \in Tasks |-> Later(focus[u], d)],
           NEW x, NEW y, x.task \in Tasks, Says(x),
           y.task = x.task, y.nth = x.nth, y.left = Later(x.left, d)
    PROVE  Says(y)'
<1>1. focus'[x.task] = Later(focus[x.task], d)
    OBVIOUS
<1>2. Later(0, d) = 0 /\ Later(None, d) = None
    BY DEF Later, Left, None
<1> QED BY <1>1, <1>2 DEF Says

LEMMA TickFlow ==
    ASSUME TypeOK, HandlingShape, NEW t \in Tasks, Flow(t), Tick
    PROVE  Flow(t)'
<1>0. /\ 1 \in Left /\ nth' = nth
      /\ focus' = [u \in Tasks |-> Later(focus[u], 1)]
    BY FocusAssumption DEF Tick, Left
<1>1. \A c \in Callers : /\ call'[c].task = call[c].task /\ call'[c].nth = call[c].nth
                         /\ call'[c].left = Later(call[c].left, 1)
    BY SMTT(30) DEF Tick, TypeOK, Change, Idle
<1>2. /\ DOMAIN changes' = DOMAIN changes
      /\ \A i \in DOMAIN changes :
           /\ changes'[i].task = changes[i].task /\ changes'[i].nth = changes[i].nth
           /\ changes'[i].left = Later(changes[i].left, 1)
    <2>1. /\ DOMAIN changes = 1..Len(changes)
          /\ \A i \in DOMAIN changes : changes[i] \in Change
        BY DEF TypeOK
    <2>2. /\ DOMAIN changes' = DOMAIN changes
          /\ \A i \in DOMAIN changes : changes'[i] = [changes[i] EXCEPT !.left = Later(@, 1)]
        BY DEF Tick
    <2> QED BY <2>1, <2>2 DEF Change
<1>3. InCall(t)' = InCall(t)
    BY <1>1 DEF InCall
<1>4. Pending(t)' = Pending(t)
    BY <1>2, <1>3 DEF Pending, Range
<1>5. CallSays(t)'
    BY <1>0, <1>1, SaysAged DEF Flow, CallSays
<1>6. QueueSays(t)'
    <2> SUFFICES ASSUME ~InCall(t), NEW i \in DOMAIN changes, LastOf(t, i)
                 PROVE  Says(changes[i])'
        BY <1>2, <1>3 DEF QueueSays, LastOf
    <2>1. Says(changes[i]) /\ changes[i].task = t
        BY DEF Flow, QueueSays, LastOf
    <2>2. PICK y : y = changes'[i]
        OBVIOUS
    <2>3. Says(y)'
        BY <1>0, <1>2, <2>1, <2>2, SaysAged
    <2> QED BY <2>2, <2>3 DEF Says
<1>7. HandlerSays(t)'
    <2> SUFFICES ASSUME ~Pending(t), handling.stage = "cancel", handling.change.task = t
                 PROVE  Says(handling.change)'
        BY <1>4, TickHandling DEF HandlerSays
    <2>1. Says(handling.change)
        BY DEF Flow, HandlerSays
    <2>2. PICK y : y = handling'.change
        OBVIOUS
    <2>3. /\ y.task = handling.change.task /\ y.nth = handling.change.nth
          /\ y.left = Later(handling.change.left, 1)
        BY <2>2, TickHandling
    <2>4. Says(y)'
        BY <1>0, <2>1, <2>3, SaysAged
    <2> QED BY <2>2, <2>4 DEF Says
<1>8. RowsSay(t)'
    <2> SUFFICES ASSUME Match(t, RowsOf(t) \cup Held(t))
                 PROVE  Match(t, RowsOf(t) \cup Held(t))'
        BY <1>4, TickHandling DEF Flow, RowsSay
    <2>1. PICK rows \in SUBSET Fire : rows = RowsOf(t) \cup Held(t)
        BY DEF RowsOf, Held, TypeOK
    <2>2. Match(t, Aged(rows, 1))'
        BY <1>0, <2>1, MatchAged
    <2>3. RowsOf(t)' = Aged(RowsOf(t), 1)
        <3>1. fires \in SUBSET Fire
            BY DEF TypeOK
        <3>2. Of(Aged(fires, 1), t) = Aged(Of(fires, t), 1)
            BY <1>0, <3>1, AgedOf
        <3>3. fires' = Aged(fires, 1)
            BY DEF Tick
        <3> QED BY <3>2, <3>3 DEF RowsOf, Of
    <2>4. Held(t)' = Aged(Held(t), 1)
        <3>1. handling.rows \in SUBSET Fire
            BY DEF TypeOK
        <3>2. Of(Aged(handling.rows, 1), t) = Aged(Of(handling.rows, t), 1)
            BY <1>0, <3>1, AgedOf
        <3> QED BY <3>2, TickHandling DEF Held, Of
    <2>5. Aged(rows, 1) = RowsOf(t)' \cup Held(t)'
        BY <2>1, <2>3, <2>4 DEF Aged
    <2>6. PICK aged : aged = Aged(rows, 1)
        OBVIOUS
    <2> QED BY <2>2, <2>5 DEF Match
<1> QED BY <1>5, <1>6, <1>7, <1>8 DEF Flow

\* A restart leaves the rows alone of a task of which nothing was in memory.
LEMMA RestartFlow ==
    ASSUME TypeOK, HandlingShape, NEW t \in Tasks, Flow(t), t \notin disturbed',
           NEW d \in Left, NEW missed, Restart(d, missed)
    PROVE  Flow(t)'
<1>0. /\ nth' = nth /\ focus' = [u \in Tasks |-> Later(focus[u], d)]
      /\ t \notin InMemory /\ \A f \in missed : f.task # t
    BY DEF Restart, Fault, Upset
<1>1. ~Pending(t) /\ handling.change.task # t
    BY <1>0 DEF InMemory
<1>2. Held(t) = {}
    BY <1>1 DEF Held, HandlingShape
<1>3. PICK rows \in SUBSET Fire : rows = RowsOf(t) /\ Match(t, rows)
    BY <1>1, <1>2 DEF Flow, RowsSay, RowsOf, TypeOK
<1>4. Match(t, Aged(rows, d))'
    BY <1>0, <1>3, MatchAged
<1>5. RowsOf(t)' = Aged(rows, d)
    <2>1. RowsOf(t)' = {g \in Aged(fires, d) : g.task = t}
        BY <1>0 DEF Restart, RowsOf
    <2>2. fires \in SUBSET Fire
        BY DEF TypeOK
    <2>3. Of(Aged(fires, d), t) = Aged(Of(fires, t), d)
        BY <2>2, AgedOf
    <2> QED BY <2>1, <2>3, <1>3 DEF RowsOf, Of
<1>6. Held(t)' = {}
    BY DEF Restart, NotHandling, Held
<1>7. RowsSay(t)'
    BY <1>4, <1>5, <1>6 DEF RowsSay, Match
<1>8. ~InCall(t)' /\ DOMAIN changes' = {} /\ handling'.stage = "idle"
    BY IdleTask DEF Restart, InCall, NotHandling
<1> QED BY <1>7, <1>8 DEF Flow, CallSays, QueueSays, HandlerSays, InCall

\* Every step keeps the flow of a task that is not upset by it.
LEMMA FlowStep ==
    ASSUME IInv, [Next]_vars, NEW t \in Tasks, t \notin disturbed'
    PROVE  Flow(t)'
<1> USE DEF IInv
<1>0. t \notin disturbed => Flow(t)
    OBVIOUS
<1>1. ASSUME NEW c \in Callers, NEW u \in Tasks, Focus(c, u) \/ Unfocus(c, u) PROVE Flow(t)'
    BY <1>0, <1>1, ChangeFlow
<1>2. CASE CancelRows
    BY <1>0, <1>2, CancelFlow
<1>3. ASSUME NEW c \in Callers, Publish(c) PROVE Flow(t)'
    BY <1>0, <1>3, PublishFlow DEF Publish
<1>4. CASE Receive \/ LoseChange
    <2>1. t \notin disturbed /\ (LoseChange => Head(changes).task # t)
        BY <1>4 DEF Receive, LoseChange, Fault, Upset
    <2> QED BY <1>0, <1>4, <2>1, TailFlow
<1>5. ASSUME NEW r \in handling.rows, InsertRow(r) \/ InsertFails(r) PROVE Flow(t)'
    <2>1. t \notin disturbed /\ (InsertFails(r) => r.task # t)
        BY <1>5 DEF InsertRow, InsertFails, Fault, Upset
    <2> QED BY <1>0, <1>5, <2>1, RowFlow
<1>6. CASE Tick
    BY <1>0, <1>6, TickFlow DEF Tick
<1>7. ASSUME NEW d \in Left, NEW missed, Restart(d, missed) PROVE Flow(t)'
    BY <1>0, <1>7, RestartFlow DEF Restart, Fault, Upset
<1>8. ASSUME NEW c \in Callers, CallFails(c) PROVE Flow(t)'
    <2>1. /\ call[c].task # t /\ call'[c].task # t
          /\ \A b \in Callers : b # c => call'[b] = call[b]
        BY <1>8, IdleTask DEF CallFails, Fault, Upset, TypeOK
    <2> QED BY <1>0, <1>8, <2>1, FlowKept DEF CallFails, Fault, Upset, RowsOf
<1>9. ASSUME NEW u \in Tasks, CompleteOrReopen(u) PROVE Flow(t)'
    BY <1>0, <1>9, FlowKept DEF CompleteOrReopen, RowsOf
<1>10. ASSUME NEW u \in Tasks, Delete(u) PROVE Flow(t)'
    <2>1. u # t /\ t \notin disturbed /\ focus'[t] = focus[t]
        BY <1>10 DEF Delete, Upset, TypeOK
    <2> QED BY <1>0, <1>10, <2>1, FlowKept DEF Delete, RowsOf
<1>11. CASE CancelFails
    <2>1. handling.change.task # t /\ t \notin disturbed
        BY <1>11 DEF CancelFails, Fault, Upset
    <2>2. /\ UNCHANGED <<focus, nth, call, changes, fires>>
          /\ handling'.change.task # t /\ handling'.rows = {} /\ handling.rows = {}
        BY <1>11, IdleTask DEF CancelFails, Fault, HandlingShape, NotHandling
    <2>3. CallSays(t)' /\ QueueSays(t)' /\ HandlerSays(t)'
        BY <1>0, <2>1, <2>2 DEF Flow, CallSays, QueueSays, HandlerSays, InCall, LastOf, Says
    <2>4. RowsSay(t)'
        BY <1>0, <2>1, <2>2 DEF Flow, RowsSay, Match, RowsOf, Held, Pending, InCall
    <2> QED BY <2>3, <2>4 DEF Flow
<1>12. ASSUME NEW f \in fires, FireRow(f) PROVE Flow(t)'
    BY <1>0, <1>12, FlowKept DEF FireRow, RowsOf
<1>13. ASSUME AlarmEnds \/ \E e \in expired : WatcherEnds(e) PROVE Flow(t)'
    <2>1. PICK u : End(u)
        BY <1>13 DEF AlarmEnds, WatcherEnds
    <2>2. t \notin disturbed
        BY <2>1 DEF End, Upset
    <2>3. focus'[t] = focus[t] \/ (focus[t] = 0 /\ focus'[t] = None)
        <3>1. CASE u # t
            BY <2>1, <3>1 DEF End, TypeOK
        <3>2. CASE u = t
            <4>1. ~(focus[t] > 0) /\ focus'[t] = None
                BY <2>1, <3>2 DEF End, Upset, TypeOK
            <4>2. focus[t] \in Left \cup {None}
                BY DEF TypeOK
            <4> QED BY <4>1, <4>2 DEF Left, None
        <3> QED BY <3>1, <3>2
    <2> QED BY <1>0, <1>13, <2>2, <2>3, FlowKept DEF AlarmEnds, WatcherEnds, RowsOf
<1>14. ASSUME AlarmFails \/ Poll \/ \E e \in expired : WatcherFails(e) PROVE Flow(t)'
    BY <1>0, <1>14, FlowKept DEF AlarmFails, Poll, WatcherFails, Fault, Upset, RowsOf
<1>15. CASE UNCHANGED vars
    BY <1>0, <1>15, FlowKept DEF vars, RowsOf
<1> QED BY <1>1, <1>2, <1>3, <1>4, <1>5, <1>6, <1>7, <1>8, <1>9, <1>10, <1>11, <1>12,
           <1>13, <1>14, <1>15 DEF Next
-----------------------------------------------------------------------------
(* The rows of a task are of one focus.                                    *)

\* They stay so when every row stems from one of the same task and focus.
LEMMA OneFocusKept ==
    ASSUME OneFocus,
           \A g \in fires' \cup handling'.rows : \E f \in fires \cup handling.rows :
                g.task = f.task /\ g.nth = f.nth
    PROVE  OneFocus'
<1> SUFFICES ASSUME NEW g \in fires' \cup handling'.rows,
                    NEW h \in fires' \cup handling'.rows, g.task = h.task
             PROVE  g.nth = h.nth
    BY DEF OneFocus
<1>1. PICK f \in fires \cup handling.rows : g.task = f.task /\ g.nth = f.nth
    OBVIOUS
<1>2. PICK e \in fires \cup handling.rows : h.task = e.task /\ h.nth = e.nth
    OBVIOUS
<1>3. f.task = e.task => f.nth = e.nth
    BY Zenon DEF OneFocus
<1> QED BY <1>1, <1>2, <1>3, Zenon

\* Every step keeps them so: a handler inserts the rows of a change only after
\* the cancel that took every other row of the task.
LEMMA OneFocusStep ==
    ASSUME TypeOK, HandlingShape, OneFocus, [Next]_vars PROVE OneFocus'
<1>1. CASE fires' \cup handling'.rows \subseteq fires \cup handling.rows
    BY <1>1, OneFocusKept
<1>2. CASE CancelRows
    <2> DEFINE c == handling.change
    <2>1. c \in Change /\ handling.rows = {}
        BY <1>2, PendingType DEF CancelRows, HandlingShape
    <2>2. handling'.rows = Rows(c.task, c.left, c.nth) /\ fires' = fires \ RowsOf(c.task)
        BY <1>2, <2>1, PreparedShape DEF CancelRows
    <2>3. \A r \in handling'.rows : r.task = c.task /\ r.nth = c.nth
        BY <2>1, <2>2, RowsOfFocus
    <2>4. \A f \in fires' : f \in fires /\ f.task # c.task
        BY <2>2 DEF RowsOf
    <2> SUFFICES ASSUME NEW f \in fires' \cup handling'.rows,
                        NEW g \in fires' \cup handling'.rows, f.task = g.task
                 PROVE  f.nth = g.nth
        BY DEF OneFocus
    <2>5. CASE f.task = c.task
        BY <2>3, <2>4, <2>5
    <2>6. CASE f.task # c.task
        BY <2>3, <2>4, <2>6 DEF OneFocus
    <2> QED BY <2>5, <2>6
<1>3. ASSUME NEW r \in handling.rows, InsertRow(r) \/ InsertFails(r) PROVE OneFocus'
    <2>1. handling'.rows = handling.rows \ {r}
        BY <1>3, NextRowShape DEF InsertRow, InsertFails
    <2>2. fires' \subseteq fires \cup {r}
        BY <1>3 DEF InsertRow, InsertFails
    <2> QED BY <1>1, <2>1, <2>2
<1>4. CASE Tick
    <2>1. 1 \in Left /\ fires \in SUBSET Fire /\ handling.rows \in SUBSET Fire
        BY FocusAssumption DEF Left, TypeOK
    <2>2. fires' = Aged(fires, 1) /\ handling'.rows = Aged(handling.rows, 1)
        BY <1>4, TickHandling DEF Tick
    <2>3. \A g \in Aged(fires, 1) : \E f \in fires : g.task = f.task /\ g.nth = f.nth
        BY <2>1, AgedRow
    <2>4. \A g \in Aged(handling.rows, 1) :
            \E f \in handling.rows : g.task = f.task /\ g.nth = f.nth
        BY <2>1, AgedRow
    <2> QED BY <2>2, <2>3, <2>4, OneFocusKept
<1>5. ASSUME NEW d \in Left, NEW missed, Restart(d, missed) PROVE OneFocus'
    <2>1. fires' \subseteq Aged(fires, d) /\ handling'.rows = {}
        BY <1>5 DEF Restart, NotHandling
    <2>2. fires \in SUBSET Fire
        BY DEF TypeOK
    <2>3. \A g \in Aged(fires, d) : \E f \in fires : g.task = f.task /\ g.nth = f.nth
        BY <2>2, AgedRow
    <2> QED BY <2>1, <2>3, OneFocusKept
<1>6. CASE Receive \/ CancelFails
    <2>1. fires' = fires /\ handling'.rows = {}
        BY <1>6 DEF Receive, CancelFails, NotHandling
    <2> QED BY <1>1, <2>1
<1>7. ASSUME NEW f \in fires, FireRow(f) PROVE OneFocus'
    <2>1. fires' \subseteq fires /\ handling' = handling
        BY <1>7 DEF FireRow
    <2> QED BY <1>1, <2>1
<1>8. ASSUME UNCHANGED <<fires, handling>> PROVE OneFocus'
    BY <1>8 DEF OneFocus
<1>9. ASSUME NEW c \in Callers, NEW t \in Tasks, Focus(c, t) \/ Unfocus(c, t)
      PROVE  OneFocus'
    BY <1>8, <1>9 DEF Focus, Unfocus
<1>10. CASE LoseChange \/ AlarmEnds \/ AlarmFails \/ Poll
    BY <1>8, <1>10 DEF LoseChange, AlarmEnds, AlarmFails, Poll
<1>11. ASSUME NEW e \in expired, WatcherEnds(e) \/ WatcherFails(e) PROVE OneFocus'
    BY <1>8, <1>11 DEF WatcherEnds, WatcherFails
<1>12. CASE UNCHANGED vars
    BY <1>8, <1>12 DEF vars
<1>13. ASSUME NEW c \in Callers, Publish(c) \/ CallFails(c) PROVE OneFocus'
    BY <1>8, <1>13 DEF Publish, CallFails
<1>14. ASSUME NEW t \in Tasks, CompleteOrReopen(t) \/ Delete(t) PROVE OneFocus'
    BY <1>8, <1>14 DEF CompleteOrReopen, Delete
<1> QED BY <1>2, <1>3, <1>4, <1>5, <1>6, <1>7, <1>9, <1>10, <1>11, <1>12, <1>13, <1>14
        DEF Next
-----------------------------------------------------------------------------
(* The theorems.                                                           *)

LEMMA InitInv == Init => IInv
<1> SUFFICES ASSUME Init PROVE IInv
    OBVIOUS
<1>1. Range(changes) = {} /\ Range(fired) = {}
    BY DEF Init, Range
<1>2. AllFit /\ HandlingShape /\ OneFocus
    BY <1>1 DEF Init, AllFit, HandlingShape, OneFocus, NotHandling
<1>3. ASSUME NEW t \in Tasks PROVE Flow(t)
    <2>1. /\ \A c \in Callers : call[c].task # t
          /\ DOMAIN changes = {} /\ handling.stage = "idle"
          /\ RowsOf(t) = {} /\ Held(t) = {} /\ Rows(t, focus[t], nth[t]) = {}
        BY IdleTask, RowsOver DEF Init, NotHandling, RowsOf, Held
    <2> QED BY <2>1 DEF Flow, CallSays, QueueSays, HandlerSays, RowsSay, Match
<1> QED BY <1>2, <1>3, InitType DEF IInv

\* IInv is an invariant: every change on its way and every row is about an
\* earlier focus or in time, the rows of a task are of one focus, and the last
\* change of a task that is not upset tells its focus.
THEOREM FocusInv == Spec => []IInv
<1>1. IInv /\ [Next]_vars => IInv'
    BY TypeStep, ShapeStep, FitStep, OneFocusStep, FlowStep DEF IInv
<1> QED BY <1>1, InitInv, PTL DEF Spec

\* Once the last change of a task is handled its rows in scheduled_fires are
\* those of its focus, and never those of two, for any number of tasks and
\* concurrent calls.
THEOREM RowsCorrect == Spec => []RowsMatchFocus
<1>1. ASSUME IInv, NEW t \in Tasks, Settled(t)
      PROVE  /\ {f \in RowsOf(t) : f.left > 0} = Rows(t, focus[t], nth[t])
             /\ \A f \in RowsOf(t) : f.nth = nth[t]
    <2>1. Flow(t) /\ ~Pending(t) /\ handling.change.task # t
        BY <1>1 DEF IInv, Settled, AtRest
    <2>2. Held(t) = {}
        BY <1>1, <2>1 DEF IInv, HandlingShape, Held
    <2> QED BY <2>1, <2>2 DEF Flow, RowsSay, Match
<1>2. IInv => RowsMatchFocus
    BY <1>1 DEF RowsMatchFocus, IInv, OneFocus
<1> QED BY <1>2, FocusInv, PTL

\* The expiry and the poll never cut short the focus they meant.
THEOREM EndsCorrect == Spec => EndsOnlyItsOwn
<1> DEFINE Step == \A t \in Tasks :
         (/\ focus[t] > 0 /\ focus'[t] = None
          /\ call' = call /\ status' = status)
         => \E e \in Range(fired) \cup expired : e.task = t /\ e.nth < nth[t]
<1>1. IInv /\ [Next]_vars => [Step]_vars
    BY EndsStep DEF IInv
<1> QED BY <1>1, FocusInv, PTL DEF Spec, EndsOnlyItsOwn
=============================================================================
