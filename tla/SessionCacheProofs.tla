------------------------- MODULE SessionCacheProofs -------------------------
(***************************************************************************)
(* Proofs about SessionCache for every set of conversations and turns,     *)
(* every size of the cache and every threshold.                            *)
(***************************************************************************)
EXTENDS SessionCache, SequenceTheorems, FiniteSetTheorems, TLAPS

-----------------------------------------------------------------------------
(* The order of use.                                                       *)

\* Removing a key keeps an order without repetitions, of the other keys only.
LEMMA ShiftRemoveProperties ==
    ASSUME NEW order \in Seq(Keys), IsInjective(order), NEW k \in Keys
    PROVE  LET r == ShiftRemove(order, k) IN
           /\ r \in Seq(Keys) /\ IsInjective(r)
           /\ \A i \in 1..Len(r) : r[i] # k /\ \E j \in 1..Len(order) : r[i] = order[j]
<1>1. CASE ~Contains(order, k)
    BY <1>1 DEF ShiftRemove, Contains
<1>2. CASE Contains(order, k)
  <2> DEFINE p == CHOOSE i \in 1..Len(order) : order[i] = k
             a == SubSeq(order, 1, p - 1)
             b == SubSeq(order, p + 1, Len(order))
             r == ShiftRemove(order, k)
  <2>1. p \in 1..Len(order) /\ order[p] = k
      BY <1>2 DEF Contains
  <2>2. /\ \A i, j \in 1..Len(order) : order[i] = order[j] => i = j
        /\ \A i \in 1..Len(order) : order[i] \in Keys
        /\ Len(order) \in Nat
      BY DEF IsInjective
  <2>3. /\ a \in Seq(Keys) /\ Len(a) = p - 1
        /\ \A i \in 1..(p - 1) : a[i] = order[i]
      <3> HIDE DEF p
      <3>1. \A i \in 1..(p - 1) : order[i] \in Keys
          BY <2>1, <2>2
      <3> QED BY <3>1, <2>1, <2>2, SubSeqProperties
  <2>4. /\ b \in Seq(Keys) /\ Len(b) = Len(order) - p
        /\ \A i \in 1..(Len(order) - p) : b[i] = order[p + i]
      <3> HIDE DEF p
      <3>1. \A i \in (p + 1)..Len(order) : order[i] \in Keys
          BY <2>1, <2>2
      <3>2. /\ SubSeq(order, p + 1, Len(order)) \in Seq(Keys)
            /\ Len(SubSeq(order, p + 1, Len(order))) =
                 IF p + 1 <= Len(order) THEN Len(order) - (p + 1) + 1 ELSE 0
            /\ \A i \in 1..(Len(order) - (p + 1) + 1) :
                 SubSeq(order, p + 1, Len(order))[i] = order[p + 1 + i - 1]
          BY <3>1, <2>1, <2>2, SubSeqProperties
      <3> QED BY <3>2, <2>1, <2>2
  <2>5. r = a \o b
      BY <1>2 DEF ShiftRemove, RemoveAt
  <2> HIDE DEF p, a, b, r
  <2>6. /\ r \in Seq(Keys) /\ Len(r) = Len(order) - 1
        /\ \A i \in 1..Len(r) : r[i] = IF i <= p - 1 THEN order[i] ELSE order[i + 1]
      <3>1. /\ a \o b \in Seq(Keys) /\ Len(a \o b) = Len(a) + Len(b)
            /\ \A i \in 1..Len(a) + Len(b) :
                 (a \o b)[i] = IF i <= Len(a) THEN a[i] ELSE b[i - Len(a)]
          BY <2>3, <2>4, ConcatProperties
      <3>0. r \in Seq(Keys) /\ Len(r) = Len(order) - 1
          BY <3>1, <2>1, <2>2, <2>3, <2>4, <2>5
      <3>2. ASSUME NEW i \in 1..Len(r)
            PROVE  r[i] = IF i <= p - 1 THEN order[i] ELSE order[i + 1]
          <4>1. CASE i <= p - 1
              BY <4>1, <3>1, <2>1, <2>2, <2>3, <2>4, <2>5
          <4>2. CASE ~(i <= p - 1)
              <5>1. r[i] = b[i - (p - 1)] /\ i - (p - 1) \in 1..(Len(order) - p)
                  BY <4>2, <3>1, <2>1, <2>2, <2>3, <2>4, <2>5
              <5>2. b[i - (p - 1)] = order[p + (i - (p - 1))]
                  BY <5>1, <2>4
              <5>3. p + (i - (p - 1)) = i + 1
                  BY <2>1, <3>0, <2>2
              <5> QED BY <5>1, <5>2, <5>3, <4>2
          <4> QED BY <4>1, <4>2
      <3> QED BY <3>0, <3>2
  <2>7. IsInjective(r)
      BY <2>6, <2>1, <2>2 DEF IsInjective
  <2>8. ASSUME NEW i \in 1..Len(r)
        PROVE  r[i] # k /\ \E j \in 1..Len(order) : r[i] = order[j]
    <3>1. /\ i \in 1..Len(order) /\ i + 1 \in 1..Len(order)
          /\ i <= p - 1 => i # p
          /\ ~(i <= p - 1) => i + 1 # p
        BY <2>6, <2>1, <2>2
    <3>2. CASE i <= p - 1
        BY <2>6, <3>1, <3>2, <2>1, <2>2
    <3>3. CASE ~(i <= p - 1)
        BY <2>6, <3>1, <3>3, <2>1, <2>2
    <3> QED BY <3>2, <3>3
  <2> QED BY <2>6, <2>7, <2>8 DEF r
<1> QED BY <1>1, <1>2

\* Adding a key that is not there.
LEMMA AppendProperties2 ==
    ASSUME NEW order \in Seq(Keys), IsInjective(order), NEW k \in Keys,
           ~Contains(order, k)
    PROVE  LET r == Append(order, k) IN
           /\ r \in Seq(Keys) /\ IsInjective(r)
           /\ \A i \in 1..Len(r) : r[i] = k \/ \E j \in 1..Len(order) : r[i] = order[j]
BY DEF IsInjective, Contains

\* A stretch of an order without repetitions.
LEMMA StretchProperties ==
    ASSUME NEW order \in Seq(Keys), IsInjective(order),
           NEW m \in 1..Len(order) + 1, NEW n \in 0..Len(order)
    PROVE  LET r == SubSeq(order, m, n) IN
           /\ r \in Seq(Keys) /\ IsInjective(r)
           /\ \A i \in 1..Len(r) : \E j \in 1..Len(order) : r[i] = order[j]
           /\ m <= n => r # <<>>
<1> DEFINE r == SubSeq(order, m, n)
<1>1. Len(order) \in Nat /\ \A i \in m..n : order[i] \in Keys
    OBVIOUS
<1>2. /\ r \in Seq(Keys) /\ Len(r) = IF m <= n THEN n - m + 1 ELSE 0
      /\ \A i \in 1..(n - m + 1) : r[i] = order[m + i - 1]
    BY <1>1, SubSeqProperties
<1> HIDE DEF r
<1>3. \A i \in 1..Len(r) : r[i] = order[m + i - 1] /\ m + i - 1 \in 1..Len(order)
    BY <1>1, <1>2
<1>4. IsInjective(r)
    <2>1. ASSUME NEW i \in 1..Len(r), NEW j \in 1..Len(r), r[i] = r[j] PROVE i = j
        <3>1. order[m + i - 1] = order[m + j - 1]
            BY <2>1, <1>3
        <3>2. m + i - 1 \in DOMAIN order /\ m + j - 1 \in DOMAIN order
            BY <1>3
        <3>3. m + i - 1 = m + j - 1
            BY <3>1, <3>2 DEF IsInjective
        <3> QED BY <3>3, <1>1, <1>2
    <2> QED BY <2>1, <1>2, SMTT(30) DEF IsInjective
<1> QED BY <1>1, <1>2, <1>3, <1>4 DEF r

-----------------------------------------------------------------------------
(* Types.                                                                  *)

\* What a task's locals hold at each await; n is the clock.
Fits(s, n) ==
    /\ s.snap \subseteq 1..n
    /\ s.pc \notin {"idle", "failed"} => s.key \in Keys
    /\ s.evict # <<>> => s.pc \in {"snapshot", "upsert", "insert", "count"}
    /\ s.pc = "snapshot" => s.evict # <<>>
    /\ s.snap # {} => s.pc \in {"upsert", "insert", "count", "cache"}
    /\ IF s.pc = "push" THEN s.arc \in Arcs /\ s.arc[1] = s.key ELSE s.arc = None

\* What the cache has under a key is a session of that key.
CacheFits == \A k \in Keys : cache[k] # None => cache[k][1] = k

MemTyped ==
    /\ cache \in [Keys -> Arcs \cup {None}] /\ CacheFits
    /\ heap \in [Arcs -> SUBSET (1..clock)]
    /\ DOMAIN task = Turns
    /\ \A t \in Turns : task[t] \in TaskState /\ Fits(task[t], clock)

RestTyped ==
    /\ rows \subseteq Keys
    /\ stored \in [Keys -> SUBSET (1..clock)]
    /\ lru \in Seq(Keys) /\ IsInjective(lru)
    /\ resetting \in Keys \cup {None}
    /\ clock \in Nat
    /\ log \in [Keys -> SUBSET (1..clock)]
    /\ removed \subseteq 1..clock /\ overtaken \subseteq 1..clock /\ final \subseteq 1..clock
    /\ quietReset \in BOOLEAN
    /\ errors \in 0..MaxErrors /\ deletes \in 0..MaxDeletes

Typed == MemTyped /\ RestTyped

LEMMA TypedIsTypeOK == Typed => TypeOK
<1>1. \A A, B, C, S : A \subseteq S /\ B \subseteq S /\ C \subseteq S
                     => UNION {A, B, C} \subseteq S
    OBVIOUS
<1> QED BY <1>1 DEF Typed, MemTyped, RestTyped, TypeOK

\* No more than one turn holds each of a key's names, so one is always free.
LEMMA FreeArcExists ==
    ASSUME NEW k \in Keys
    PROVE  \E n \in 1..Cardinality(Turns) + 1 : \A u \in Turns : task[u].arc # <<k, n>>
<1> DEFINE N == Cardinality(Turns) + 1
<1>1. Cardinality(Turns) \in Nat
    BY SessionAssumption, FS_CardinalityType
<1> SUFFICES ASSUME \A n \in 1..N : \E u \in Turns : task[u].arc = <<k, n>>
             PROVE  FALSE
    BY <1>1
<1> DEFINE holder == [n \in 1..N |-> CHOOSE u \in Turns : task[u].arc = <<k, n>>]
<1>2. \A n \in 1..N : holder[n] \in Turns /\ task[holder[n]].arc = <<k, n>>
    OBVIOUS
<1>3. IsFiniteSet(1..N) /\ Cardinality(1..N) = N
    BY <1>1, FS_Interval
<1> HIDE DEF holder
<1>4. holder \in [1..N -> Turns]
    BY <1>2 DEF holder
<1>5. PICK i, j \in 1..N : i # j /\ holder[i] = holder[j]
    BY <1>1, <1>3, <1>4, SessionAssumption, FS_PigeonHole
<1> QED BY <1>2, <1>5

\* A step of one task, given what it makes of the task, the cache and the heap.
LEMMA StepTyped ==
    ASSUME Typed, NEW t \in Turns, NEW s, NEW c, NEW h, Step(t, s, c, h),
           clock' \in Nat, clock <= clock',
           s \in TaskState, Fits(s, clock'),
           c \in [Keys -> Arcs \cup {None}], \A k \in Keys : c[k] # None => c[k][1] = k,
           h \in [Arcs -> SUBSET (1..clock')]
    PROVE  MemTyped'
<1> USE DEF Step, Typed, MemTyped, RestTyped
<1>1. DOMAIN task' = Turns /\ task'[t] = s /\ \A u \in Turns \ {t} : task'[u] = task[u]
    OBVIOUS
<1>2. ASSUME NEW u \in Turns \ {t} PROVE Fits(task'[u], clock')
    <2>1. task'[u] = task[u] /\ Fits(task[u], clock)
        BY <1>1
    <2>2. \A m \in Int : m \in 1..clock => m \in 1..clock'
        OBVIOUS
    <2> QED BY <2>1, <2>2 DEF Fits
<1>3. heap' \in [Arcs -> SUBSET (1..clock')]
    BY DEF Dropped
<1>4. cache' = c /\ CacheFits'
    BY DEF CacheFits
<1> QED BY <1>1, <1>2, <1>3, <1>4

\* The same where only the task changes.
LEMMA GotoTyped ==
    ASSUME Typed, NEW t \in Turns, NEW s, Goto(t, s), clock' \in Nat, clock <= clock',
           s \in TaskState, Fits(s, clock')
    PROVE  MemTyped'
<1>1. /\ cache \in [Keys -> Arcs \cup {None}]
      /\ \A k \in Keys : cache[k] # None => cache[k][1] = k
    BY DEF Typed, MemTyped, CacheFits
<1>2. heap \in [Arcs -> SUBSET (1..clock')]
    <2>1. heap \in [Arcs -> SUBSET (1..clock)] /\ clock \in Nat
        BY DEF Typed, MemTyped, RestTyped
    <2> QED BY <2>1
<1> QED BY <1>1, <1>2, StepTyped DEF Goto
\* The lookup leaves a task in order.
LEMMA LookupProperties ==
    ASSUME Typed, NEW s \in TaskState, NEW n, s.key \in Keys, s.evict = <<>>,
           s.snap = {}, s.arc = None
    PROVE  /\ Lookup(s) \in TaskState /\ Fits(Lookup(s), n)
           /\ Lookup(s).key = s.key /\ Lookup(s).evict = <<>> /\ Lookup(s).snap = {}
           /\ Lookup(s).pc \in {"push", "load"}
<1> USE DEF Lookup, TaskState, PCs, Fits
<1>1. CASE cache[s.key] # None
    <2>1. cache[s.key] \in Arcs /\ cache[s.key][1] = s.key
        BY <1>1 DEF Typed, MemTyped, CacheFits
    <2> QED BY <1>1, <2>1
<1>2. CASE cache[s.key] = None
    BY <1>2
<1> QED BY <1>1, <1>2

\* So does the way from one eviction to the next, or to the lookup.
LEMMA NextVictimProperties ==
    ASSUME Typed, NEW s \in TaskState, NEW n, s.key \in Keys, s.evict # <<>>, s.arc = None
    PROVE  LET v == NextVictim(s) IN
           /\ v \in TaskState /\ Fits(v, n)
           /\ v.key = s.key /\ v.evict = Tail(s.evict) /\ v.snap = {}
           /\ v.pc \in {"snapshot", "push", "load"}
<1> DEFINE rest == [s EXCEPT !.evict = Tail(@), !.snap = {}, !.tries = 1]
<1>1. /\ s.evict \in Seq(Keys) /\ Tail(s.evict) \in Seq(Keys)
      /\ Len(s.evict) > 1 <=> Tail(s.evict) # <<>>
    BY DEF TaskState
<1>2. /\ rest \in TaskState /\ rest.key = s.key /\ rest.evict = Tail(s.evict)
      /\ rest.snap = {} /\ rest.arc = None
    BY <1>1 DEF TaskState
<1> HIDE DEF rest
<1>3. NextVictim(s) = IF Len(s.evict) > 1 THEN [rest EXCEPT !.pc = "snapshot"] ELSE Lookup(rest)
    BY DEF NextVictim, rest
<1>4. CASE Len(s.evict) > 1
    BY <1>1, <1>2, <1>3, <1>4, ZenonT(60) DEF TaskState, PCs, Fits
<1>5. CASE ~(Len(s.evict) > 1)
    <2>1. rest.evict = <<>>
        BY <1>1, <1>2, <1>5
    <2> QED BY <1>1, <1>2, <1>3, <1>5, <2>1, LookupProperties
<1> QED BY <1>4, <1>5

\* How a turn ends.
LEMMA EndProperties ==
    /\ Failed \in TaskState /\ \A n : Fits(Failed, n)
    /\ \A s \in TaskState : s.key \in Keys =>
         Answered(s) \in TaskState /\ \A n : Fits(Answered(s), n)
<1>1. Fresh \in TaskState
    <2>1. <<>> \in Seq(Keys)
        OBVIOUS
    <2> QED BY <2>1 DEF Fresh, TaskState, PCs
<1>2. Failed \in TaskState /\ \A n : Fits(Failed, n)
    BY <1>1 DEF Failed, Fresh, TaskState, PCs, Fits
<1>3. ASSUME NEW s \in TaskState, s.key \in Keys
      PROVE  Answered(s) \in TaskState /\ \A n : Fits(Answered(s), n)
    <2>1. s.answer \in Nat
        BY DEF TaskState
    <2>2. Answered(s) \in TaskState
        BY <1>1, <1>3, <2>1 DEF Answered, TaskState, PCs
    <2> QED BY <1>3, <2>2 DEF Answered, Fresh, Fits
<1> QED BY <1>2, <1>3

\* Trimming and compaction choose from what is there, and keep the newest.
LEMMA NewestProperties ==
    ASSUME NEW S \in SUBSET Nat, NEW n \in Nat \ {0}
    PROVE  /\ Newest(n, S) \subseteq S
           /\ \A m \in S : (\A x \in S : x <= m) => m \in Newest(n, S)
<1>1. ASSUME NEW m \in S, \A x \in S : x <= m PROVE m \in Newest(n, S)
    <2>0. \A x \in S : ~(x > m)
        BY <1>1
    <2>1. {x \in S : x > m} = {}
        BY <2>0
    <2> QED BY <2>1, FS_EmptySet DEF Newest
<1> QED BY <1>1 DEF Newest

LEMMA TrimmedProperties ==
    ASSUME NEW S \in SUBSET Nat
    PROVE  /\ Trimmed(S) \subseteq S
           /\ \A m \in S : (\A x \in S : x <= m) => m \in Trimmed(S)
BY SessionAssumption, NewestProperties DEF Trimmed

LEMMA InCacheTyped ==
    ASSUME Typed, NEW k \in Keys
    PROVE  InCache(k) \subseteq 1..clock
BY DEF Typed, MemTyped, InCache

\* The next attempt of an eviction.
LEMMA RetryProperties ==
    ASSUME NEW s \in TaskState, NEW n, Fits(s, n), s.pc \in {"upsert", "insert"}
    PROVE  /\ [s EXCEPT !.tries = @ + 1, !.pc = "upsert"] \in TaskState
           /\ Fits([s EXCEPT !.tries = @ + 1, !.pc = "upsert"], n)
<1>1. s.tries + 1 \in Nat /\ "upsert" \in PCs
    BY DEF TaskState, PCs
<1> QED BY <1>1 DEF TaskState, Fits

\* What the end of a save, successful or not, leaves.
LEMMA SavedTyped ==
    ASSUME Typed, NEW t \in Turns, task[t].pc = "count", Saved(t),
           clock' \in Nat, clock <= clock'
    PROVE  MemTyped' /\ overtaken' \subseteq 1..clock
<1> DEFINE s == task[t]
           v == Head(s.evict)
<1>1. /\ s \in TaskState /\ s.key \in Keys /\ s.arc = None
    BY DEF Typed, MemTyped, Fits
<1>2. CASE s.evict = <<>>
    <2>1. Answered(s) \in TaskState /\ Fits(Answered(s), clock')
        BY <1>1, EndProperties
    <2>2. Failed \in TaskState /\ Fits(Failed, clock')
        BY EndProperties
    <2>3. PICK r \in {Answered(s), Failed} : Goto(t, r)
        BY <1>2 DEF Saved
    <2>4. MemTyped'
        BY <2>1, <2>2, <2>3, GotoTyped
    <2> QED BY <1>2, <2>4 DEF Saved, Typed, RestTyped
<1>3. CASE s.evict # <<>>
    <2>1. v \in Keys
        BY <1>1, <1>3 DEF TaskState
    <2>2. NextVictim(s) \in TaskState /\ Fits(NextVictim(s), clock')
        BY <1>1, <1>3, NextVictimProperties
    <2>3. /\ Step(t, NextVictim(s), [cache EXCEPT ![v] = None], heap)
          /\ overtaken' = overtaken \cup (InCache(v) \ s.snap)
        BY <1>3 DEF Saved
    <2>4. /\ [cache EXCEPT ![v] = None] \in [Keys -> Arcs \cup {None}]
          /\ \A k \in Keys : [cache EXCEPT ![v] = None][k] # None
                               => [cache EXCEPT ![v] = None][k][1] = k
        BY <2>1 DEF Typed, MemTyped, CacheFits
    <2>5. heap \in [Arcs -> SUBSET (1..clock')]
        BY DEF Typed, MemTyped, RestTyped
    <2>6. MemTyped'
        BY <2>2, <2>3, <2>4, <2>5, StepTyped
    <2> QED BY <2>1, <2>3, <2>6, InCacheTyped DEF Typed, RestTyped
<1> QED BY <1>2, <1>3

LEMMA SaveFailedTyped ==
    ASSUME Typed, NEW t \in Turns, task[t].pc \in {"upsert", "insert"}, SaveFailed(t),
           clock' = clock
    PROVE  /\ MemTyped' /\ overtaken' \subseteq 1..clock
           /\ lru' \in Seq(Keys) /\ IsInjective(lru')
<1> DEFINE s == task[t]
           v == Head(s.evict)
<1>1. /\ s \in TaskState /\ Fits(s, clock) /\ s.key \in Keys /\ s.arc = None
      /\ s.snap \subseteq 1..clock
      /\ clock' \in Nat /\ clock <= clock'
      /\ overtaken \subseteq 1..clock /\ lru \in Seq(Keys) /\ IsInjective(lru)
    BY DEF Typed, MemTyped, RestTyped, Fits
<1>2. CASE s.evict = <<>> /\ Goto(t, Failed) /\ overtaken' = overtaken \cup (s.snap \ InCache(s.key))
           /\ UNCHANGED lru
    <2>1. Failed \in TaskState /\ Fits(Failed, clock')
        BY EndProperties
    <2> QED BY <1>1, <1>2, <2>1, GotoTyped
<1>3. CASE s.evict # <<>> /\ Goto(t, [s EXCEPT !.tries = @ + 1, !.pc = "upsert"])
           /\ UNCHANGED <<lru, overtaken>>
    <2>1. /\ [s EXCEPT !.tries = @ + 1, !.pc = "upsert"] \in TaskState
          /\ Fits([s EXCEPT !.tries = @ + 1, !.pc = "upsert"], clock')
        BY <1>1, RetryProperties
    <2> QED BY <1>1, <1>3, <2>1, GotoTyped
<1>4. CASE s.evict # <<>> /\ Goto(t, NextVictim(s))
           /\ lru' = (IF Contains(lru, v) THEN lru ELSE Append(lru, v))
           /\ UNCHANGED overtaken
    <2>1. v \in Keys
        BY <1>1, <1>4 DEF TaskState
    <2>2. NextVictim(s) \in TaskState /\ Fits(NextVictim(s), clock')
        BY <1>1, <1>4, NextVictimProperties
    <2>3. lru' \in Seq(Keys) /\ IsInjective(lru')
        BY <1>1, <1>4, <2>1, AppendProperties2
    <2> QED BY <1>1, <1>4, <2>2, <2>3, GotoTyped
<1> QED BY <1>2, <1>3, <1>4 DEF SaveFailed
\* The order after a key was promoted: as before, and the key.
LEMMA PromotedProperties ==
    ASSUME Typed, NEW k \in Keys
    PROVE  LET order == Append(ShiftRemove(lru, k), k) IN
           /\ order \in Seq(Keys) /\ IsInjective(order)
           /\ \A i \in 1..Len(order) : order[i] = k \/ Contains(lru, order[i])
<1> DEFINE r == ShiftRemove(lru, k)
<1>1. lru \in Seq(Keys) /\ IsInjective(lru)
    BY DEF Typed, RestTyped
<1>2. /\ r \in Seq(Keys) /\ IsInjective(r)
      /\ \A i \in 1..Len(r) : r[i] # k /\ \E j \in 1..Len(lru) : r[i] = lru[j]
    BY <1>1, ShiftRemoveProperties
<1> HIDE DEF r
<1>3. ~Contains(r, k)
    BY <1>2 DEF Contains
<1>4. LET o == Append(r, k) IN
      /\ o \in Seq(Keys) /\ IsInjective(o)
      /\ \A i \in 1..Len(o) : o[i] = k \/ \E j \in 1..Len(r) : o[i] = r[j]
    BY <1>2, <1>3, AppendProperties2
<1> QED BY <1>2, <1>4, SMTT(30) DEF Contains, r

\* What Touch makes of the order and of the task.
LEMMA TouchProperties ==
    ASSUME Typed, NEW t \in Turns, Touch(t)
    PROVE  /\ lru' \in Seq(Keys) /\ IsInjective(lru')
           /\ \A i \in 1..Len(lru') : lru'[i] = task[t].key \/ Contains(lru, lru'[i])
           /\ \E s \in TaskState :
                /\ Goto(t, s) /\ Fits(s, clock) /\ s.key = task[t].key /\ s.snap = {}
                /\ s.pc \in {"push", "load", "snapshot"}
                /\ \A i \in 1..Len(s.evict) : s.evict[i] = task[t].key \/ Contains(lru, s.evict[i])
<1> DEFINE s == task[t]
           order == Append(ShiftRemove(lru, s.key), s.key)
           excess == IF Len(order) > MaxCache THEN Len(order) - MaxCache ELSE 0
           evicted == SubSeq(order, 1, excess)
           left == SubSeq(order, excess + 1, Len(order))
<1>1. /\ s \in TaskState /\ s.key \in Keys /\ s.evict = <<>> /\ s.snap = {} /\ s.arc = None
      /\ s.pc = "touch"
    BY DEF Typed, MemTyped, Fits, Touch
<1>2. /\ order \in Seq(Keys) /\ IsInjective(order)
      /\ \A i \in 1..Len(order) : order[i] = s.key \/ Contains(lru, order[i])
    BY <1>1, PromotedProperties
<1>3. /\ lru' = left
      /\ Goto(t, IF excess = 0 THEN Lookup(s) ELSE [s EXCEPT !.evict = evicted, !.pc = "snapshot"])
    BY DEF Touch
<1> HIDE DEF order, s
<1>4. /\ Len(order) \in Nat /\ excess \in 0..Len(order)
      /\ 1 \in 1..Len(order) + 1 /\ excess + 1 \in 1..Len(order) + 1 /\ Len(order) \in 0..Len(order)
    BY <1>2, SessionAssumption
<1> HIDE DEF excess
<1>5. /\ left \in Seq(Keys) /\ IsInjective(left)
      /\ \A i \in 1..Len(left) : \E j \in 1..Len(order) : left[i] = order[j]
    BY <1>2, <1>4, StretchProperties
<1>6. /\ evicted \in Seq(Keys)
      /\ \A i \in 1..Len(evicted) : \E j \in 1..Len(order) : evicted[i] = order[j]
      /\ 1 <= excess => evicted # <<>>
    BY <1>2, <1>4, StretchProperties
<1> HIDE DEF evicted, left
<1>7. CASE excess = 0
    <2>1. /\ Lookup(s) \in TaskState /\ Fits(Lookup(s), clock) /\ Lookup(s).key = s.key
          /\ Lookup(s).snap = {} /\ Lookup(s).evict = <<>> /\ Lookup(s).pc \in {"push", "load"}
        BY <1>1, LookupProperties
    <2>2. \A i \in 1..Len(Lookup(s).evict) : FALSE
        BY <2>1
    <2> QED BY <1>2, <1>3, <1>5, <1>7, <2>1, <2>2 DEF s
<1>8. CASE excess # 0
    <2> DEFINE r == [s EXCEPT !.evict = evicted, !.pc = "snapshot"]
    <2>1. /\ r \in TaskState /\ r.key = s.key /\ r.evict = evicted /\ r.snap = {}
          /\ r.pc = "snapshot" /\ r.arc = None
        BY <1>1, <1>6 DEF TaskState, PCs
    <2>2. evicted # <<>>
        BY <1>4, <1>6, <1>8
    <2>3. Fits(r, clock)
        BY <1>1, <2>1, <2>2 DEF Fits
    <2> QED BY <1>2, <1>3, <1>5, <1>6, <1>8, <2>1, <2>3, ZenonT(60) DEF s
<1> QED BY <1>7, <1>8

LEMMA CacheInsertProperties ==
    ASSUME Typed, NEW t \in Turns, CacheInsert(t)
    PROVE  LET s == task[t] IN
           /\ s \in TaskState /\ s.key \in Keys /\ s.evict = <<>> /\ s.snap \subseteq 1..clock
           /\ \E a \in Arcs : \E h \in [Arcs -> SUBSET (1..clock)] :
                /\ a[1] = s.key
                /\ cache[s.key] # None => a = cache[s.key] /\ h = heap
                /\ cache[s.key] = None => h = [heap EXCEPT ![a] = s.snap]
                /\ Step(t, [s EXCEPT !.pc = "push", !.arc = a, !.snap = {}],
                        [cache EXCEPT ![s.key] = a], h)
<1> DEFINE s == task[t]
           free == CHOOSE n \in 1..Cardinality(Turns) + 1 :
                       \A u \in Turns : task[u].arc # <<s.key, n>>
           a == IF cache[s.key] # None THEN cache[s.key] ELSE <<s.key, free>>
           h == IF cache[s.key] # None THEN heap ELSE [heap EXCEPT ![a] = s.snap]
<1>1. /\ s \in TaskState /\ s.key \in Keys /\ s.evict = <<>> /\ s.snap \subseteq 1..clock
    BY DEF Typed, MemTyped, Fits, CacheInsert
<1>2. free \in 1..Cardinality(Turns) + 1
    BY <1>1, FreeArcExists
<1>3. a \in Arcs /\ a[1] = s.key
    <2>1. CASE cache[s.key] # None
        BY <1>1, <2>1 DEF Typed, MemTyped, CacheFits
    <2>2. CASE cache[s.key] = None
        <3> HIDE DEF free
        <3> QED BY <1>1, <1>2, <2>2 DEF Arcs
    <2> QED BY <2>1, <2>2
<1>4. Step(t, [s EXCEPT !.pc = "push", !.arc = a, !.snap = {}], [cache EXCEPT ![s.key] = a], h)
    BY DEF CacheInsert
<1>5. h \in [Arcs -> SUBSET (1..clock)]
    <2> HIDE DEF a
    <2> QED BY <1>1, <1>3 DEF Typed, MemTyped
<1>6. /\ cache[s.key] # None => a = cache[s.key] /\ h = heap
      /\ cache[s.key] = None => h = [heap EXCEPT ![a] = s.snap]
    OBVIOUS
<1> HIDE DEF a, h, s
<1> QED BY <1>1, <1>3, <1>4, <1>5, <1>6 DEF s
\* The task after its push.
LEMMA PushedTyped ==
    ASSUME NEW s \in TaskState, NEW n \in Nat, NEW kept \in SUBSET (1..n),
           s.pc = "push", s.key \in Keys, s.evict = <<>>
    PROVE  LET r == [s EXCEPT !.arc = None,
                              !.pc = IF s.stage = "user" THEN "model" ELSE "upsert",
                              !.snap = IF s.stage = "user" THEN {} ELSE kept,
                              !.answer = IF s.stage = "answer" THEN n ELSE 0]
           IN  r \in TaskState /\ Fits(r, n)
<1> DEFINE pc == IF s.stage = "user" THEN "model" ELSE "upsert"
           snap == IF s.stage = "user" THEN {} ELSE kept
           answer == IF s.stage = "answer" THEN n ELSE 0
           r == [s EXCEPT !.arc = None, !.pc = pc, !.snap = snap, !.answer = answer]
<1>1. pc \in {"model", "upsert"} /\ pc \in PCs /\ snap \in SUBSET Nat /\ snap \subseteq 1..n /\ answer \in Nat
      /\ (snap # {} => pc = "upsert")
    <2>1. kept \subseteq 1..n /\ kept \in SUBSET Nat
        OBVIOUS
    <2>2. CASE s.stage = "user"
        BY <2>2 DEF PCs
    <2>3. CASE s.stage # "user"
        BY <2>1, <2>3 DEF PCs
    <2> QED BY <2>2, <2>3
<1> HIDE DEF pc, snap, answer
<1>2. r \in TaskState
    BY <1>1 DEF TaskState
<1>3. r.arc = None /\ r.pc = pc /\ r.snap = snap /\ r.key = s.key /\ r.evict = s.evict
    BY DEF TaskState
<1> HIDE DEF r
<1>4. Fits(r, n)
    BY <1>1, <1>3 DEF Fits
<1> QED BY <1>2, <1>4 DEF r, pc, snap, answer

\* A message is added under the session's lock: what the step makes of the
\* clock, the session and the task.
LEMMA PushProperties ==
    ASSUME Typed, NEW t \in Turns, Push(t)
    PROVE  LET s == task[t] IN
           \E added \in SUBSET {clock + 1}, kept \in SUBSET (1..clock'), r \in TaskState :
             LET grown == heap[s.arc] \cup added IN
             /\ r = [s EXCEPT !.arc = None,
                              !.pc = IF s.stage = "user" THEN "model" ELSE "upsert",
                              !.snap = IF s.stage = "user" THEN {} ELSE kept,
                              !.answer = IF s.stage = "answer" THEN clock' ELSE 0]
             /\ s.pc = "push" /\ s \in TaskState /\ s.key \in Keys /\ s.evict = <<>>
             /\ s.arc \in Arcs /\ s.arc[1] = s.key /\ s.snap = {}
             /\ clock' \in Nat /\ clock <= clock' /\ added \subseteq 1..clock'
             /\ kept \subseteq grown
             /\ s.stage = "answer" => clock' \in kept
             /\ removed' = removed \cup ((grown \ kept) \ stored[s.key])
             /\ log' = [log EXCEPT ![s.key] = @ \cup added]
             /\ overtaken' = IF s.stage = "user" /\ cache[s.key] # s.arc
                               THEN overtaken \cup added ELSE overtaken
             /\ grown \subseteq 1..clock'
             /\ Fits(r, clock')
             /\ Step(t, r, cache, [heap EXCEPT ![s.arc] = kept])
<1> DEFINE s == task[t]
           added == IF s.stage = "persist" THEN {} ELSE {clock + 1}
           grown == heap[s.arc] \cup added
           kept == IF added = {} THEN grown ELSE Trimmed(grown)
           r == [s EXCEPT !.arc = None,
                          !.pc = IF s.stage = "user" THEN "model" ELSE "upsert",
                          !.snap = IF s.stage = "user" THEN {} ELSE kept,
                          !.answer = IF s.stage = "answer" THEN clock' ELSE 0]
<1>1. /\ s.pc = "push" /\ s \in TaskState /\ s.key \in Keys /\ s.evict = <<>>
      /\ s.arc \in Arcs /\ s.arc[1] = s.key /\ s.snap = {}
    BY DEF Push, Typed, MemTyped, Fits
<1>2. clock \in Nat /\ heap[s.arc] \in SUBSET (1..clock)
    BY <1>1 DEF Typed, MemTyped, RestTyped
<1>3. /\ clock' = clock + Cardinality(added)
      /\ removed' = removed \cup ((grown \ kept) \ stored[s.key])
      /\ log' = [log EXCEPT ![s.key] = @ \cup added]
      /\ overtaken' = IF s.stage = "user" /\ cache[s.key] # s.arc
                        THEN overtaken \cup added ELSE overtaken
      /\ Step(t, r, cache, [heap EXCEPT ![s.arc] = kept])
    BY DEF Push
<1> HIDE DEF s
<1>4. /\ added \in SUBSET {clock + 1} /\ clock' \in Nat /\ clock <= clock'
      /\ added \subseteq 1..clock' /\ (s.stage = "answer" => clock' \in added)
      /\ (added # {} => clock' \in added)
    <2>1. CASE s.stage = "persist"
        BY <1>2, <1>3, <2>1, FS_EmptySet
    <2>2. CASE s.stage # "persist"
        <3>1. added = {clock + 1} /\ clock' = clock + 1
            BY <1>2, <1>3, <2>2, FS_Singleton
        <3> QED BY <1>2, <2>2, <3>1
    <2> QED BY <2>1, <2>2
<1> HIDE DEF added
<1>5. grown \subseteq 1..clock' /\ grown \in SUBSET Nat
    <2>1. heap[s.arc] \subseteq 1..clock'
        BY <1>2, <1>4
    <2>2. grown \subseteq 1..clock'
        BY <1>4, <2>1
    <2> HIDE DEF grown
    <2> QED BY <2>2, <1>4
<1>6. kept \subseteq grown /\ (s.stage = "answer" => clock' \in kept)
    <2>1. CASE added = {}
        BY <1>4, <2>1
    <2>2. CASE added # {}
        <3>1. \A x \in grown : x <= clock'
            BY <1>4, <1>5
        <3>2. clock' \in grown
            BY <1>4, <2>2
        <3> HIDE DEF grown
        <3> QED BY <1>5, <2>2, <3>1, <3>2, TrimmedProperties
    <2> QED BY <2>1, <2>2
<1> HIDE DEF kept
<1>7. kept \in SUBSET (1..clock')
    BY <1>5, <1>6
<1>8. r \in TaskState /\ Fits(r, clock')
    BY <1>1, <1>4, <1>7, PushedTyped
<1> QED BY <1>1, <1>3, <1>4, <1>5, <1>6, <1>7, <1>8 DEF s

\* What Count makes of the table and the history.
LEMMA CountProperties ==
    ASSUME Typed, NEW t \in Turns, Count(t)
    PROVE  LET k == Target(task[t]) IN
           \E added \in SUBSET {clock + 1}, kept \in SUBSET (1..clock') :
             /\ k \in Keys
             /\ clock' \in Nat /\ clock <= clock' /\ added \subseteq 1..clock'
             /\ kept \subseteq stored[k] \cup added
             /\ stored' = [stored EXCEPT ![k] = kept]
             /\ log' = [log EXCEPT ![k] = @ \cup (stored[k] \cup added)]
             /\ removed' = removed \cup ((stored[k] \cup added) \ kept)
             /\ task[t].pc = "count" /\ Saved(t)
<1> DEFINE k == Target(task[t])
           full == Cardinality(stored[k]) > CompactAt
           marked == IF full THEN stored[k] \cup {clock'} ELSE stored[k]
           kept == IF full THEN Newest(CompactKeep, marked) ELSE marked
           added == IF full THEN {clock'} ELSE {}
<1>1. task[t] \in TaskState /\ task[t].key \in Keys
    BY DEF Count, Typed, MemTyped, Fits
<1>2. k \in Keys
    <2>1. task[t].evict \in Seq(Keys)
        BY <1>1 DEF TaskState
    <2> QED BY <1>1, <2>1 DEF Target
<1>3. clock \in Nat /\ stored[k] \in SUBSET (1..clock)
    BY <1>2 DEF Typed, RestTyped
<1>4. clock' = IF full THEN clock + 1 ELSE clock
    BY DEF Count
<1>5. /\ stored' = [stored EXCEPT ![k] = kept]
      /\ log' = [log EXCEPT ![k] = @ \cup marked]
      /\ removed' = removed \cup (marked \ kept)
      /\ task[t].pc = "count" /\ Saved(t)
    BY DEF Count
<1> HIDE DEF k, full
<1>6. marked = stored[k] \cup added /\ added \in SUBSET {clock + 1} /\ added \subseteq 1..clock'
      /\ clock' \in Nat /\ clock <= clock' /\ marked \subseteq 1..clock'
    BY <1>3, <1>4
<1>7. kept \subseteq marked
    <2>1. marked \in SUBSET Nat
        BY <1>6
    <2> HIDE DEF marked
    <2> QED BY <2>1, SessionAssumption, NewestProperties
<1> HIDE DEF marked, added, kept
<1>8. kept \in SUBSET (1..clock')
    BY <1>6, <1>7
<1>9. /\ kept \subseteq stored[k] \cup added
      /\ log' = [log EXCEPT ![k] = @ \cup (stored[k] \cup added)]
      /\ removed' = removed \cup ((stored[k] \cup added) \ kept)
    BY <1>5, <1>6, <1>7
<1> QED BY <1>2, <1>5, <1>6, <1>8, <1>9 DEF k
LEMMA TypedInit == Init => Typed
<1> SUFFICES ASSUME Init PROVE Typed
    OBVIOUS
<1> USE SessionAssumption DEF Init
<1>1. Fresh \in TaskState /\ Fits(Fresh, clock)
    <2>1. <<>> \in Seq(Keys)
        OBVIOUS
    <2> QED BY <2>1 DEF Fresh, TaskState, PCs, Fits
<1>2. heap \in [Arcs -> SUBSET (1..clock)]
    OBVIOUS
<1>3. MemTyped
    BY <1>1, <1>2 DEF MemTyped, CacheFits
<1>4. stored \in [Keys -> SUBSET (1..clock)] /\ rows \subseteq Keys
    OBVIOUS
<1>5. lru \in Seq(Keys) /\ IsInjective(lru)
    BY DEF IsInjective
<1>6. /\ clock \in Nat /\ log \in [Keys -> SUBSET (1..clock)]
      /\ errors \in 0..MaxErrors /\ deletes \in 0..MaxDeletes
    <2>1. log = stored /\ clock = OldMessages /\ errors = 0 /\ deletes = 0
        BY DEF Init
    <2> QED BY <1>4, <2>1
<1>7. removed = {} /\ overtaken = {} /\ final = {} /\ resetting = None /\ quietReset = FALSE
    OBVIOUS
<1>8. RestTyped
    BY <1>4, <1>5, <1>6, <1>7 DEF RestTyped
<1> QED BY <1>3, <1>8 DEF Typed

\* The steps of a turn keep the types.
LEMMA AdvanceTyped ==
    ASSUME Typed, NEW t \in Turns, Advance(t)
    PROVE  Typed'
<1> DEFINE s == task[t]
<1>0. /\ s \in TaskState /\ Fits(s, clock) /\ clock \in Nat /\ clock <= clock
    BY DEF Typed, MemTyped, RestTyped
<1>1. CASE Touch(t)
  <2>1. UNCHANGED <<dbVars, resetVars, clock, history, bounds>>
      BY <1>1 DEF Touch
  <2>2. PICK r \in TaskState : Goto(t, r) /\ Fits(r, clock)
      BY <1>1, TouchProperties
  <2>3. MemTyped'
      BY <1>0, <2>1, <2>2, GotoTyped
  <2>4. lru' \in Seq(Keys) /\ IsInjective(lru')
      BY <1>1, TouchProperties
  <2> QED BY <2>1, <2>3, <2>4 DEF Typed, RestTyped, dbVars, resetVars, history, bounds
<1>2. CASE Snapshot(t)
  <2> DEFINE v == Head(s.evict)
             r == IF cache[v] = None THEN NextVictim(s)
                  ELSE [s EXCEPT !.pc = "upsert", !.snap = heap[cache[v]]]
  <2>1. UNCHANGED <<dbVars, lru, resetVars, clock, history, bounds>> /\ Goto(t, r)
        /\ s.pc = "snapshot"
      BY <1>2 DEF Snapshot
  <2>2. s.evict # <<>> /\ s.key \in Keys /\ s.arc = None /\ v \in Keys
      <3>1. s.evict # <<>> /\ s.key \in Keys /\ s.arc = None
          BY <1>0, <2>1 DEF Fits
      <3>2. s.evict \in Seq(Keys)
          BY <1>0 DEF TaskState
      <3> QED BY <3>1, <3>2
  <2>3. r \in TaskState /\ Fits(r, clock)
      <3>1. CASE cache[v] = None
          BY <1>0, <2>2, <3>1, NextVictimProperties
      <3>2. CASE cache[v] # None
          <4>1. heap[cache[v]] \subseteq 1..clock
              BY <2>2, <3>2 DEF Typed, MemTyped
          <4> DEFINE c == heap[cache[v]]
          <4>2. r = [s EXCEPT !.pc = "upsert", !.snap = c] /\ c \in SUBSET Nat /\ c \subseteq 1..clock
              BY <3>2, <4>1
          <4> HIDE DEF c, v, s
          <4> QED BY <1>0, <2>1, <2>2, <4>2, ZenonT(60) DEF TaskState, PCs, Fits
      <3> QED BY <3>1, <3>2
  <2> HIDE DEF r
  <2>4. MemTyped'
      BY <1>0, <2>1, <2>3, GotoTyped
  <2> QED BY <2>1, <2>4 DEF Typed, RestTyped, dbVars, resetVars, history, bounds
<1>3. CASE Upsert(t)
  <2> DEFINE r == [s EXCEPT !.pc = IF s.snap = {} THEN "count" ELSE "insert"]
  <2>1. UNCHANGED <<stored, lru, resetVars, clock, history, bounds>> /\ Goto(t, r)
        /\ s.pc = "upsert" /\ rows' = rows \cup {Target(s)}
      BY <1>3 DEF Upsert
  <2>2. r \in TaskState /\ Fits(r, clock)
      BY <1>0, <2>1 DEF TaskState, PCs, Fits
  <2>3. MemTyped'
      BY <1>0, <2>1, <2>2, GotoTyped
  <2>4. Target(s) \in Keys
      BY <1>0, <2>1 DEF Target, TaskState, Fits
  <2> QED BY <2>1, <2>3, <2>4 DEF Typed, RestTyped, resetVars, history, bounds
<1>4. CASE Insert(t)
  <2> DEFINE k == Target(s)
  <2>1. UNCHANGED <<rows, resetVars, clock, log, removed, final, bounds>> /\ s.pc = "insert"
      BY <1>4 DEF Insert
  <2>2. CASE /\ stored' = [stored EXCEPT ![k] = @ \cup s.snap]
             /\ Goto(t, [s EXCEPT !.pc = "count"])
             /\ UNCHANGED <<lru, overtaken>>
    <3>1. [s EXCEPT !.pc = "count"] \in TaskState /\ Fits([s EXCEPT !.pc = "count"], clock)
        BY <1>0, <2>1 DEF TaskState, PCs, Fits
    <3>2. MemTyped'
        BY <1>0, <2>1, <2>2, <3>1, GotoTyped
    <3>3. s.snap \subseteq 1..clock
        BY <1>0 DEF Fits
    <3>4. stored' \in [Keys -> SUBSET (1..clock)]
        BY <2>2, <3>3 DEF Typed, RestTyped
    <3> QED BY <2>1, <2>2, <3>2, <3>4 DEF Typed, RestTyped, resetVars, bounds
  <2>3. CASE SaveFailed(t) /\ UNCHANGED stored
    <3>1. /\ MemTyped' /\ overtaken' \subseteq 1..clock
          /\ lru' \in Seq(Keys) /\ IsInjective(lru')
        BY <2>1, <2>3, SaveFailedTyped
    <3> QED BY <2>1, <2>3, <3>1 DEF Typed, RestTyped, resetVars, bounds
  <2> QED BY <1>4, <2>2, <2>3 DEF Insert
<1>5. CASE Count(t)
  <2> DEFINE k == Target(s)
  <2>1. UNCHANGED <<rows, lru, resetVars, final, bounds>>
      BY <1>5 DEF Count
  <2>2. PICK added \in SUBSET {clock + 1}, kept \in SUBSET (1..clock') :
          /\ k \in Keys
          /\ clock' \in Nat /\ clock <= clock' /\ added \subseteq 1..clock'
          /\ kept \subseteq stored[k] \cup added
          /\ stored' = [stored EXCEPT ![k] = kept]
          /\ log' = [log EXCEPT ![k] = @ \cup (stored[k] \cup added)]
          /\ removed' = removed \cup ((stored[k] \cup added) \ kept)
          /\ s.pc = "count" /\ Saved(t)
      BY <1>5, CountProperties
  <2>3. MemTyped' /\ overtaken' \subseteq 1..clock
      BY <2>2, SavedTyped
  <2> HIDE DEF k
  <2>4. 1..clock \subseteq 1..clock'
      BY <1>0, <2>2
  <2>5. /\ stored' \in [Keys -> SUBSET (1..clock')]
        /\ log' \in [Keys -> SUBSET (1..clock')]
        /\ removed' \subseteq 1..clock' /\ final \subseteq 1..clock'
      BY <2>2, <2>4 DEF Typed, RestTyped
  <2> QED BY <2>1, <2>2, <2>3, <2>4, <2>5 DEF Typed, RestTyped, resetVars, bounds
<1>6. CASE Load(t)
  <2> DEFINE r == IF s.key \in rows THEN [s EXCEPT !.pc = "cache", !.snap = stored[s.key]]
                  ELSE [s EXCEPT !.pc = "create"]
  <2>1. UNCHANGED <<dbVars, lru, resetVars, clock, history, bounds>> /\ Goto(t, r)
        /\ s.pc = "load"
      BY <1>6 DEF Load
  <2>2. stored[s.key] \subseteq 1..clock /\ stored[s.key] \in SUBSET Nat
      BY <1>0, <2>1 DEF Fits, Typed, RestTyped
  <2>3. r \in TaskState /\ Fits(r, clock)
      BY <1>0, <2>1, <2>2 DEF TaskState, PCs, Fits
  <2>4. MemTyped'
      BY <1>0, <2>1, <2>3, GotoTyped
  <2> QED BY <2>1, <2>4 DEF Typed, RestTyped, dbVars, resetVars, history, bounds
<1>7. CASE Create(t)
  <2> DEFINE r == [s EXCEPT !.pc = "cache", !.snap = {}]
  <2>1. UNCHANGED <<stored, lru, resetVars, clock, history, bounds>> /\ Goto(t, r)
        /\ s.pc = "create" /\ rows' = rows \cup {s.key}
      BY <1>7 DEF Create
  <2>2. r \in TaskState /\ Fits(r, clock) /\ s.key \in Keys
      BY <1>0, <2>1 DEF TaskState, PCs, Fits
  <2>3. MemTyped'
      BY <1>0, <2>1, <2>2, GotoTyped
  <2> QED BY <2>1, <2>2, <2>3 DEF Typed, RestTyped, resetVars, history, bounds
<1>8. CASE CacheInsert(t)
  <2>1. UNCHANGED <<dbVars, lru, resetVars, clock, history, bounds>> /\ s.pc = "cache"
      BY <1>8 DEF CacheInsert
  <2>2. PICK a \in Arcs, h \in [Arcs -> SUBSET (1..clock)] :
          /\ s.key \in Keys /\ s.evict = <<>> /\ a[1] = s.key
          /\ Step(t, [s EXCEPT !.pc = "push", !.arc = a, !.snap = {}],
                  [cache EXCEPT ![s.key] = a], h)
      BY <1>8, CacheInsertProperties
  <2> DEFINE r == [s EXCEPT !.pc = "push", !.arc = a, !.snap = {}]
             c == [cache EXCEPT ![s.key] = a]
  <2>3. r \in TaskState /\ Fits(r, clock)
      BY <1>0, <2>1, <2>2 DEF TaskState, PCs, Fits
  <2>4. c \in [Keys -> Arcs \cup {None}] /\ \A k \in Keys : c[k] # None => c[k][1] = k
      BY <2>2 DEF Typed, MemTyped, CacheFits
  <2> HIDE DEF r, c
  <2>5. Step(t, r, c, h)
      BY <2>2 DEF r, c
  <2>6. MemTyped'
      BY <1>0, <2>1, <2>3, <2>4, <2>5, StepTyped
  <2> QED BY <2>1, <2>6 DEF Typed, RestTyped, dbVars, resetVars, history, bounds
<1>9. CASE Push(t)
  <2>1. UNCHANGED <<dbVars, lru, resetVars, final, bounds>>
      BY <1>9 DEF Push
  <2>2. PICK added \in SUBSET {clock + 1}, kept \in SUBSET (1..clock'), r \in TaskState :
          /\ s.key \in Keys /\ s.arc \in Arcs
          /\ clock' \in Nat /\ clock <= clock' /\ added \subseteq 1..clock'
          /\ removed' = removed \cup (((heap[s.arc] \cup added) \ kept) \ stored[s.key])
          /\ log' = [log EXCEPT ![s.key] = @ \cup added]
          /\ overtaken' \in {overtaken \cup added, overtaken}
          /\ heap[s.arc] \cup added \subseteq 1..clock'
          /\ Fits(r, clock')
          /\ Step(t, r, cache, [heap EXCEPT ![s.arc] = kept])
      BY <1>9, PushProperties, ZenonT(60)
  <2>3. 1..clock \subseteq 1..clock'
      BY <1>0, <2>2
  <2> DEFINE h == [heap EXCEPT ![s.arc] = kept]
  <2>4. /\ h \in [Arcs -> SUBSET (1..clock')]
        /\ cache \in [Keys -> Arcs \cup {None}]
        /\ \A k \in Keys : cache[k] # None => cache[k][1] = k
      BY <2>2, <2>3 DEF Typed, MemTyped, CacheFits
  <2> HIDE DEF h, s
  <2>5. Step(t, r, cache, h)
      BY <2>2 DEF h
  <2>6. MemTyped'
      BY <2>2, <2>4, <2>5, StepTyped
  <2>7. /\ stored \in [Keys -> SUBSET (1..clock')]
        /\ log' \in [Keys -> SUBSET (1..clock')]
        /\ removed' \subseteq 1..clock' /\ final \subseteq 1..clock' /\ overtaken' \subseteq 1..clock'
      BY <2>2, <2>3 DEF Typed, RestTyped
  <2> QED BY <2>1, <2>2, <2>6, <2>7 DEF Typed, RestTyped, dbVars, resetVars, bounds
<1>10. CASE Model(t)
  <2>1. UNCHANGED <<dbVars, lru, resetVars, clock, history, bounds>> /\ s.pc = "model"
      BY <1>10 DEF Model
  <2>2. PICK r \in {[s EXCEPT !.stage = "answer", !.pc = "touch"],
                    [s EXCEPT !.stage = "persist", !.pc = "touch"], Failed} : Goto(t, r)
      BY <1>10 DEF Model
  <2>3. \A st \in {"answer", "persist"} :
          /\ [s EXCEPT !.stage = st, !.pc = "touch"] \in TaskState
          /\ Fits([s EXCEPT !.stage = st, !.pc = "touch"], clock)
      BY <1>0, <2>1 DEF TaskState, PCs, Fits
  <2>4. r \in TaskState /\ Fits(r, clock)
      BY <2>2, <2>3, EndProperties
  <2>5. MemTyped'
      BY <1>0, <2>1, <2>2, <2>4, GotoTyped
  <2> QED BY <2>1, <2>5 DEF Typed, RestTyped, dbVars, resetVars, history, bounds
<1> QED BY <1>1, <1>2, <1>3, <1>4, <1>5, <1>6, <1>7, <1>8, <1>9, <1>10 DEF Advance
LEMMA StatementFailsTyped ==
    ASSUME Typed, NEW t \in Turns, StatementFails(t)
    PROVE  Typed'
<1> DEFINE s == task[t]
<1>0. /\ s \in TaskState /\ Fits(s, clock) /\ clock \in Nat /\ clock <= clock /\ clock' = clock
      /\ UNCHANGED <<dbVars, resetVars, clock, log, removed, final, deletes>>
      /\ errors' \in 0..MaxErrors
    BY SessionAssumption DEF Typed, MemTyped, RestTyped, StatementFails
<1>1. CASE Goto(t, Failed) /\ UNCHANGED <<lru, overtaken>>
  <2>1. MemTyped'
      BY <1>0, <1>1, EndProperties, GotoTyped
  <2> QED BY <1>0, <1>1, <2>1 DEF Typed, RestTyped, dbVars, resetVars
<1>2. CASE s.pc \in {"upsert", "insert"} /\ SaveFailed(t)
  <2>1. /\ MemTyped' /\ overtaken' \subseteq 1..clock
        /\ lru' \in Seq(Keys) /\ IsInjective(lru')
      BY <1>0, <1>2, SaveFailedTyped
  <2> QED BY <1>0, <2>1 DEF Typed, RestTyped, dbVars, resetVars
<1>3. CASE s.pc = "count" /\ Saved(t) /\ UNCHANGED lru
  <2>1. MemTyped' /\ overtaken' \subseteq 1..clock
      BY <1>0, <1>3, SavedTyped
  <2> QED BY <1>0, <1>3, <2>1 DEF Typed, RestTyped, dbVars, resetVars
<1> QED BY <1>1, <1>2, <1>3 DEF StatementFails

LEMMA SendTyped ==
    ASSUME Typed, NEW t \in Turns, NEW k \in Keys, NEW kind \in {"streaming", "channel"},
           Send(t, k, kind)
    PROVE  Typed'
<1> DEFINE s == task[t]
           r == [s EXCEPT !.key = k, !.kind = kind, !.pc = "touch"]
<1>1. /\ s \in TaskState /\ Fits(s, clock) /\ clock \in Nat /\ clock <= clock /\ clock' = clock
      /\ s.pc = "idle" /\ Goto(t, r) /\ NoteReset(k) /\ rows' \in {rows, rows \cup {k}}
      /\ UNCHANGED <<stored, lru, resetting, clock, history, bounds>>
    BY DEF Typed, MemTyped, RestTyped, Send
<1>2. r \in TaskState /\ Fits(r, clock)
    BY <1>1 DEF TaskState, PCs, Fits
<1>3. MemTyped'
    BY <1>1, <1>2, GotoTyped
<1> QED BY <1>1, <1>3 DEF Typed, RestTyped, NoteReset, history, bounds

LEMMA DeletionTyped ==
    /\ \A k \in Keys : Typed /\ (DeleteThread(k) \/ ResetBegin(k)) => Typed'
    /\ Typed /\ ResetDelete => Typed'
<1>1. ASSUME NEW k \in Keys, Typed, DeleteThread(k) PROVE Typed'
  <2>1. /\ UNCHANGED <<cache, heap, lru, task, resetting, quietReset, clock, log, overtaken,
                       final, errors>>
        /\ deletes' = deletes + 1 /\ deletes < MaxDeletes
        /\ rows' = rows \ {k} /\ stored' = [stored EXCEPT ![k] = {}]
        /\ removed' = removed \cup stored[k]
      BY <1>1 DEF DeleteThread, memVars, resetVars
  <2>2. deletes' \in 0..MaxDeletes
      BY <1>1, <2>1, SessionAssumption DEF Typed, RestTyped
  <2>3. /\ stored' \in [Keys -> SUBSET (1..clock)] /\ removed' \subseteq 1..clock
      BY <1>1, <2>1 DEF Typed, RestTyped
  <2>4. MemTyped'
      BY <1>1, <2>1 DEF Typed, MemTyped, CacheFits
  <2> QED BY <1>1, <2>1, <2>2, <2>3, <2>4 DEF Typed, RestTyped
<1>2. ASSUME NEW k \in Keys, Typed, ResetBegin(k) PROVE Typed'
  <2>1. lru' \in Seq(Keys) /\ IsInjective(lru')
      BY <1>2, ShiftRemoveProperties DEF Typed, RestTyped, ResetBegin
  <2>2. MemTyped'
      BY <1>2 DEF Typed, MemTyped, RestTyped, CacheFits, ResetBegin, Dropped
  <2>3. InCache(k) \subseteq 1..clock
      BY <1>2, InCacheTyped
  <2>4. /\ UNCHANGED <<rows, stored, clock, log, overtaken, final, errors>>
        /\ deletes' = deletes + 1 /\ deletes < MaxDeletes
        /\ resetting' = k /\ quietReset' = ~Involved(k) /\ removed' = removed \cup InCache(k)
      BY <1>2 DEF ResetBegin, dbVars
  <2>5. deletes' \in 0..MaxDeletes
      BY <1>2, <2>4, SessionAssumption DEF Typed, RestTyped
  <2>6. quietReset' \in BOOLEAN
      BY <2>4
  <2>7. removed' \subseteq 1..clock
      BY <1>2, <2>3, <2>4 DEF Typed, RestTyped
  <2> QED BY <1>2, <2>1, <2>2, <2>4, <2>5, <2>6, <2>7 DEF Typed, RestTyped
<1>3. ASSUME Typed, ResetDelete PROVE Typed'
    BY <1>3 DEF Typed, MemTyped, CacheFits, RestTyped, ResetDelete, memVars, bounds
<1> QED BY <1>1, <1>2, <1>3

LEMMA TypedNext == Typed /\ [Next]_vars => Typed'
<1> SUFFICES ASSUME Typed, [Next]_vars PROVE Typed'
    OBVIOUS
<1>1. CASE UNCHANGED vars
    BY <1>1 DEF Typed, MemTyped, CacheFits, RestTyped, vars, dbVars, memVars, resetVars,
       history, bounds
<1> QED BY <1>1, AdvanceTyped, StatementFailsTyped, SendTyped, DeletionTyped DEF Next

LEMMA TypedCorrect == Spec => []Typed
BY TypedInit, TypedNext, PTL DEF Spec

\* Every variable keeps its type, and a name for a session in memory is always
\* free when a turn comes to put what it loaded in the cache (entry().or_insert).
THEOREM TypeCorrect == Spec => []TypeOK
BY TypedCorrect, TypedIsTypeOK, PTL
-----------------------------------------------------------------------------
(* A confirmed answer is stored.                                           *)

\* The messages of k that are in the table, or deleted for a reason.
Gone(k) == stored[k] \cup removed

\* No step makes a stored message vanish without a reason.
LEMMA GoneGrows ==
    ASSUME Typed, [Next]_vars, NEW k \in Keys
    PROVE  Gone(k) \subseteq Gone(k)'
<1> USE DEF Gone
<1>0. stored \in [Keys -> SUBSET (1..clock)]
    BY DEF Typed, RestTyped
<1>1. CASE UNCHANGED <<stored, removed>>
    BY <1>1
<1>2. ASSUME NEW t \in Turns, Advance(t) PROVE Gone(k) \subseteq Gone(k)'
  <2>1. CASE Insert(t)
    <3>1. /\ removed' = removed
          /\ stored' \in {stored, [stored EXCEPT ![Target(task[t])] = @ \cup task[t].snap]}
        BY <2>1 DEF Insert
    <3> QED BY <1>0, <3>1
  <2>2. CASE Count(t)
    <3> DEFINE l == Target(task[t])
    <3>1. PICK added \in SUBSET {clock + 1}, kept \in SUBSET (1..clock') :
            /\ stored' = [stored EXCEPT ![l] = kept]
            /\ removed' = removed \cup ((stored[l] \cup added) \ kept)
        BY <2>2, CountProperties
    <3> HIDE DEF l
    <3> QED BY <1>0, <3>1
  <2>3. CASE Push(t)
    BY <2>3 DEF Push, dbVars
  <2>4. CASE Touch(t) \/ Snapshot(t) \/ Upsert(t) \/ Load(t) \/ Create(t) \/ CacheInsert(t)
             \/ Model(t)
    BY <2>4 DEF Touch, Snapshot, Upsert, Load, Create, CacheInsert, Model, dbVars, history
  <2> QED BY <1>2, <2>1, <2>2, <2>3, <2>4 DEF Advance
<1>3. ASSUME NEW t \in Turns, StatementFails(t) PROVE Gone(k) \subseteq Gone(k)'
    BY <1>3 DEF StatementFails, dbVars
<1>4. ASSUME NEW t \in Turns, NEW l \in Keys, NEW kind, Send(t, l, kind)
      PROVE  Gone(k) \subseteq Gone(k)'
    BY <1>4 DEF Send, history
<1>5. ASSUME NEW l \in Keys, DeleteThread(l) \/ ResetBegin(l) PROVE Gone(k) \subseteq Gone(k)'
    BY <1>0, <1>5 DEF DeleteThread, ResetBegin, dbVars
<1>6. CASE ResetDelete
    BY <1>0, <1>6 DEF ResetDelete
<1>7. CASE UNCHANGED vars
    BY <1>7 DEF vars, dbVars, history
<1> QED BY <1>2, <1>3, <1>4, <1>5, <1>6, <1>7 DEF Next

\* Where the answer of a turn is once it is said: in the clone to be saved, then
\* in the table st, unless it is among the removed rm.
AnswerFits(s, st, rm) ==
    /\ s.pc \in {"upsert", "insert"} /\ s.evict = <<>> /\ s.stage = "answer"
         => s.answer \in s.snap
    /\ s.pc = "count" /\ s.evict = <<>> /\ s.stage = "answer"
         => s.answer \in st[s.key] \cup rm
    /\ s.pc = "answered" => s.answer \in st[s.key] \cup rm

AnswerInv == \A t \in Turns : AnswerFits(task[t], stored, removed)

\* A step of one turn need only be followed for that turn.
LEMMA AnswerStep ==
    ASSUME Typed, AnswerInv, [Next]_vars, NEW t \in Turns, NEW s,
           task' = [task EXCEPT ![t] = s], AnswerFits(s, stored', removed')
    PROVE  AnswerInv'
<1>1. DOMAIN task = Turns
    BY DEF Typed, MemTyped
<1>2. ASSUME NEW u \in Turns \ {t} PROVE AnswerFits(task'[u], stored', removed')
  <2>1. task'[u] = task[u] /\ AnswerFits(task[u], stored, removed)
      BY <1>1 DEF AnswerInv
  <2>2. task[u].key \in Keys \/ task[u].pc \in {"idle", "failed"}
      BY DEF Typed, MemTyped, Fits
  <2>3. \A k \in Keys : stored[k] \cup removed \subseteq stored'[k] \cup removed'
      BY GoneGrows DEF Gone
  <2> QED BY <2>1, <2>2, <2>3 DEF AnswerFits
<1> QED BY <1>1, <1>2 DEF AnswerInv

LEMMA AnswerNext == Typed /\ AnswerInv /\ [Next]_vars => AnswerInv'
<1> SUFFICES ASSUME Typed, AnswerInv, [Next]_vars PROVE AnswerInv'
    OBVIOUS
<1>1. CASE UNCHANGED task
  <2>1. ASSUME NEW t \in Turns PROVE AnswerFits(task[t], stored', removed')
    <3>1. AnswerFits(task[t], stored, removed)
        BY DEF AnswerInv
    <3>2. task[t].key \in Keys \/ task[t].pc \in {"idle", "failed"}
        BY DEF Typed, MemTyped, Fits
    <3>3. \A k \in Keys : stored[k] \cup removed \subseteq stored'[k] \cup removed'
        BY GoneGrows DEF Gone
    <3> QED BY <3>1, <3>2, <3>3 DEF AnswerFits
  <2> QED BY <1>1, <2>1 DEF AnswerInv
<1>2. ASSUME NEW t \in Turns, NEW s, NEW c, NEW h, Step(t, s, c, h),
             AnswerFits(s, stored', removed')
      PROVE  AnswerInv'
    BY <1>2, AnswerStep DEF Step
<1>3. ASSUME NEW t \in Turns, NEW s, Goto(t, s), AnswerFits(s, stored', removed')
      PROVE  AnswerInv'
    BY <1>2, <1>3 DEF Goto
<1>4. ASSUME NEW s, s.pc \notin {"upsert", "insert", "count", "answered"}
      PROVE  AnswerFits(s, stored', removed')
    BY <1>4 DEF AnswerFits
<1>5. Failed.pc = "failed"
    BY DEF Failed, Fresh
<1>6. ASSUME NEW t \in Turns, task[t].pc = "count", Saved(t) PROVE AnswerInv'
  <2> DEFINE s == task[t]
  <2>1. s \in TaskState /\ s.key \in Keys /\ s.arc = None /\ AnswerFits(s, stored, removed)
      BY <1>6 DEF Typed, MemTyped, Fits, AnswerInv
  <2>2. CASE s.evict = <<>> /\ s.stage = "answer" /\ Goto(t, Answered(s))
    <3>1. Answered(s).pc = "answered" /\ Answered(s).key = s.key /\ Answered(s).answer = s.answer
        BY DEF Answered, Fresh
    <3>2. s.answer \in stored'[s.key] \cup removed'
        BY <1>6, <2>1, <2>2, GoneGrows DEF AnswerFits, Gone
    <3>3. AnswerFits(Answered(s), stored', removed')
        BY <3>1, <3>2 DEF AnswerFits
    <3> QED BY <1>3, <2>2, <3>3
  <2>3. CASE Goto(t, Failed)
      BY <1>3, <1>4, <1>5, <2>3
  <2>4. CASE s.evict # <<>> /\ Step(t, NextVictim(s), [cache EXCEPT ![Head(s.evict)] = None], heap)
    <3>1. NextVictim(s).pc \in {"snapshot", "push", "load"}
        BY <2>1, <2>4, NextVictimProperties
    <3>2. AnswerFits(NextVictim(s), stored', removed')
        BY <1>4, <3>1
    <3> QED BY <1>2, <2>4, <3>2
  <2> QED BY <1>6, <2>2, <2>3, <2>4 DEF Saved
<1>7. ASSUME NEW t \in Turns, task[t].pc \in {"upsert", "insert"}, SaveFailed(t) PROVE AnswerInv'
  <2> DEFINE s == task[t]
  <2>1. s \in TaskState /\ s.key \in Keys /\ s.arc = None
      BY <1>7 DEF Typed, MemTyped, Fits
  <2>2. CASE Goto(t, Failed)
      BY <1>3, <1>4, <1>5, <2>2
  <2>3. CASE s.evict # <<>> /\ Goto(t, [s EXCEPT !.tries = @ + 1, !.pc = "upsert"])
    <3>1. AnswerFits([s EXCEPT !.tries = @ + 1, !.pc = "upsert"], stored', removed')
        BY <2>1, <2>3 DEF AnswerFits, TaskState
    <3> QED BY <1>3, <2>3, <3>1
  <2>4. CASE s.evict # <<>> /\ Goto(t, NextVictim(s))
    <3>1. NextVictim(s).pc \in {"snapshot", "push", "load"}
        BY <2>1, <2>4, NextVictimProperties
    <3> QED BY <1>3, <1>4, <2>4, <3>1
  <2> QED BY <1>7, <2>2, <2>3, <2>4 DEF SaveFailed
<1>8. ASSUME NEW t \in Turns, Advance(t) PROVE AnswerInv'
  <2> DEFINE s == task[t]
  <2>0. s \in TaskState /\ Fits(s, clock) /\ AnswerFits(s, stored, removed)
      BY DEF Typed, MemTyped, AnswerInv
  <2>1. CASE Touch(t)
    <3>1. PICK r \in TaskState : Goto(t, r) /\ r.pc \in {"push", "load", "snapshot"}
        BY <2>1, TouchProperties
    <3> QED BY <1>3, <1>4, <3>1
  <2>2. CASE Snapshot(t)
    <3> DEFINE v == Head(s.evict)
    <3>1. s.pc = "snapshot" /\ s.evict # <<>> /\ s.key \in Keys /\ s.arc = None
        BY <2>0, <2>2 DEF Snapshot, Fits
    <3>2. CASE Goto(t, NextVictim(s))
      <4>1. NextVictim(s).pc \in {"snapshot", "push", "load"}
          BY <2>0, <3>1, NextVictimProperties
      <4> QED BY <1>3, <1>4, <3>2, <4>1
    <3>3. CASE Goto(t, [s EXCEPT !.pc = "upsert", !.snap = heap[cache[v]]])
      <4>1. AnswerFits([s EXCEPT !.pc = "upsert", !.snap = heap[cache[v]]], stored', removed')
          BY <2>0, <3>1 DEF AnswerFits, TaskState
      <4> QED BY <1>3, <3>3, <4>1
    <3> QED BY <2>2, <3>2, <3>3 DEF Snapshot
  <2>3. CASE Upsert(t)
    <3> DEFINE r == [s EXCEPT !.pc = IF s.snap = {} THEN "count" ELSE "insert"]
    <3>1. s.pc = "upsert" /\ Goto(t, r)
        BY <2>3 DEF Upsert
    <3>2. AnswerFits(r, stored', removed')
        BY <2>0, <3>1 DEF AnswerFits, TaskState
    <3> QED BY <1>3, <3>1, <3>2
  <2>4. CASE Insert(t)
    <3> DEFINE k == Target(s)
    <3>1. s.pc = "insert" /\ s.key \in Keys
        BY <2>0, <2>4 DEF Insert, Fits
    <3>2. CASE /\ stored' = [stored EXCEPT ![k] = @ \cup s.snap]
               /\ Goto(t, [s EXCEPT !.pc = "count"])
      <4>1. s.evict = <<>> => s.snap \subseteq stored'[s.key]
        <5>1. DOMAIN stored = Keys
            BY DEF Typed, RestTyped
        <5> QED BY <3>1, <3>2, <5>1 DEF Target
      <4>2. AnswerFits([s EXCEPT !.pc = "count"], stored', removed')
          BY <2>0, <3>1, <4>1 DEF AnswerFits, TaskState
      <4> QED BY <1>3, <3>2, <4>2
    <3>3. CASE SaveFailed(t)
        BY <1>7, <3>1, <3>3
    <3> QED BY <2>4, <3>2, <3>3 DEF Insert
  <2>5. CASE Count(t)
      BY <1>6, <2>5 DEF Count
  <2>6. CASE Load(t)
    <3>1. PICK r \in {[s EXCEPT !.pc = "cache", !.snap = stored[s.key]], [s EXCEPT !.pc = "create"]} :
            Goto(t, r)
        BY <2>6 DEF Load
    <3>2. r.pc \in {"cache", "create"}
        BY <2>0, <3>1 DEF TaskState
    <3> QED BY <1>3, <1>4, <3>1, <3>2
  <2>7. CASE Create(t)
    <3>1. Goto(t, [s EXCEPT !.pc = "cache", !.snap = {}])
        BY <2>7 DEF Create
    <3>2. [s EXCEPT !.pc = "cache", !.snap = {}].pc = "cache"
        BY <2>0 DEF TaskState
    <3> QED BY <1>3, <1>4, <3>1, <3>2
  <2>8. CASE CacheInsert(t)
    <3>1. PICK a \in Arcs, h \in [Arcs -> SUBSET (1..clock)] :
            Step(t, [s EXCEPT !.pc = "push", !.arc = a, !.snap = {}],
                 [cache EXCEPT ![s.key] = a], h)
        BY <2>8, CacheInsertProperties
    <3>2. [s EXCEPT !.pc = "push", !.arc = a, !.snap = {}].pc = "push"
        BY <2>0 DEF TaskState
    <3> QED BY <1>2, <1>4, <3>1, <3>2
  <2>9. CASE Push(t)
    <3>1. PICK added \in SUBSET {clock + 1}, kept \in SUBSET (1..clock'), r \in TaskState :
            /\ r = [s EXCEPT !.arc = None,
                             !.pc = IF s.stage = "user" THEN "model" ELSE "upsert",
                             !.snap = IF s.stage = "user" THEN {} ELSE kept,
                             !.answer = IF s.stage = "answer" THEN clock' ELSE 0]
            /\ s.stage = "answer" => clock' \in kept
            /\ Step(t, r, cache, [heap EXCEPT ![s.arc] = kept])
        BY <2>9, PushProperties
    <3>2. /\ r.stage = s.stage /\ r.pc \in {"model", "upsert"}
          /\ s.stage = "answer" => r.snap = kept /\ r.answer = clock'
        BY <2>0, <3>1 DEF TaskState
    <3>3. AnswerFits(r, stored', removed')
        BY <3>1, <3>2 DEF AnswerFits
    <3> QED BY <1>2, <3>1, <3>3
  <2>10. CASE Model(t)
    <3>1. PICK r \in {[s EXCEPT !.stage = "answer", !.pc = "touch"],
                      [s EXCEPT !.stage = "persist", !.pc = "touch"], Failed} : Goto(t, r)
        BY <2>10 DEF Model
    <3>2. r.pc \in {"touch", "failed"}
        BY <1>5, <2>0, <3>1 DEF TaskState
    <3> QED BY <1>3, <1>4, <3>1, <3>2
  <2> QED BY <1>8, <2>1, <2>2, <2>3, <2>4, <2>5, <2>6, <2>7, <2>8, <2>9, <2>10 DEF Advance
<1>9. ASSUME NEW t \in Turns, StatementFails(t) PROVE AnswerInv'
  <2>1. CASE Goto(t, Failed)
      BY <1>3, <1>4, <1>5, <2>1
  <2> QED BY <1>6, <1>7, <1>9, <2>1 DEF StatementFails
<1>10. ASSUME NEW t \in Turns, NEW k \in Keys, NEW kind \in {"streaming", "channel"},
              Send(t, k, kind)
       PROVE  AnswerInv'
  <2>1. [task[t] EXCEPT !.key = k, !.kind = kind, !.pc = "touch"].pc = "touch"
      BY DEF Typed, MemTyped, TaskState
  <2> QED BY <1>3, <1>4, <1>10, <2>1 DEF Send
<1>11. ASSUME NEW k \in Keys, DeleteThread(k) \/ ResetBegin(k) PROVE AnswerInv'
    BY <1>1, <1>11 DEF DeleteThread, ResetBegin
<1>12. CASE ResetDelete
    BY <1>1, <1>12 DEF ResetDelete
<1>13. CASE UNCHANGED vars
    BY <1>1, <1>13 DEF vars
<1> QED BY <1>8, <1>9, <1>10, <1>11, <1>12, <1>13 DEF Next

\* A turn that ended with a message id has its answer in session_messages, or the
\* answer was deleted or compacted: save_to_session clones the session after the
\* push, so the clone has the answer, and Ok comes after the insert of the clone.
THEOREM AnsweredCorrect == Spec => []AnsweredIsStored
<1>1. Init => AnswerInv
    BY DEF Init, AnswerInv, AnswerFits, Fresh
<1>2. AnswerInv => AnsweredIsStored
    BY DEF AnswerInv, AnswerFits, AnsweredIsStored
<1> QED BY <1>1, <1>2, AnswerNext, TypedCorrect, PTL DEF Spec
-----------------------------------------------------------------------------
(* What becomes of a message.                                              *)

\* The messages of k that are stored, cached, or gone for a reason.
Held(k) == UNION {stored[k], removed, overtaken, InCache(k)}

\* What a turn holds in a clone: after the insert it is all in the table; the
\* clone of an evicted session never has more than the cache or the table.
CloneFits(s) ==
    /\ s.pc \in {"count", "cache"} => s.snap \subseteq Gone(Target(s))
    /\ s.evict # <<>> => s.snap \subseteq Held(Target(s))

\* What is said is held, or in the clone of a turn.
LogHeld ==
    \A k \in Keys : \A m \in log[k] :
        m \in Held(k) \/ \E u \in Turns : Target(task[u]) = k /\ m \in task[u].snap

LossInv == (\A t \in Turns : CloneFits(task[t])) /\ LogHeld

LEMMA LogHeldExplains == Typed => (LogHeld <=> LossIsExplained)
<1> SUFFICES ASSUME Typed, NEW k \in Keys, NEW m
             PROVE  m \in UNION {stored[k], InMemory(k), removed, overtaken}
                    <=> m \in Held(k) \/ \E u \in Turns : Target(task[u]) = k /\ m \in task[u].snap
    BY DEF LogHeld, LossIsExplained
<1>1. \A u \in Turns : task[u].snap # {} => Running(u)
    BY DEF Typed, MemTyped, Fits, Running
<1>2. m \in InMemory(k) <=> \/ m \in InCache(k)
                            \/ \E u \in Turns : Target(task[u]) = k /\ m \in task[u].snap
    BY <1>1 DEF InMemory
<1> QED BY <1>2 DEF Held

\* A target is a key wherever a task has something to save.
LEMMA TargetType ==
    ASSUME Typed, NEW t \in Turns
    PROVE  /\ task[t].evict # <<>> \/ task[t].snap # {} \/ task[t].pc \in {"count", "cache"}
                => Target(task[t]) \in Keys
           /\ task[t].evict # <<>> => Head(task[t].evict) \in Keys
<1> USE DEF Typed, MemTyped, Fits, Target
<1>1. task[t].evict \in Seq(Keys)
    BY DEF TaskState
<1>2. task[t].evict # <<>> => Head(task[t].evict) \in Keys
    BY <1>1
<1> QED BY <1>2

\* The cached sessions after a step.
LEMMA StepInCache ==
    ASSUME Typed, NEW t \in Turns, NEW s, NEW c, NEW h, Step(t, s, c, h), NEW k \in Keys,
           c[k] \in Arcs \cup {None}
    PROVE  InCache(k)' = IF c[k] = None THEN {} ELSE h[c[k]]
BY DEF Step, Dropped, InCache

LEMMA GotoInCache ==
    ASSUME Typed, NEW t \in Turns, NEW s, Goto(t, s), NEW k \in Keys
    PROVE  InCache(k)' = InCache(k)
<1>1. cache[k] \in Arcs \cup {None}
    BY DEF Typed, MemTyped
<1> QED BY <1>1, StepInCache DEF Goto, InCache

\* A step of one turn, given what it does to what is held.
LEMMA LossStep ==
    ASSUME Typed, LossInv, NEW t \in Turns, NEW s,
           task' = [task EXCEPT ![t] = s],
           \A k \in Keys : Gone(k) \subseteq Gone(k)' /\ Held(k) \subseteq Held(k)',
           s.pc \in {"count", "cache"} => s.snap \subseteq stored'[Target(s)] \cup removed',
           s.evict # <<>> => s.snap \subseteq Held(Target(s))',
           \A k \in Keys : \A m \in log'[k] :
               m \in log[k] \/ m \in Held(k)' \/ (Target(s) = k /\ m \in s.snap),
           \A k \in Keys : \A m \in task[t].snap :
               Target(task[t]) = k => m \in Held(k)' \/ (Target(s) = k /\ m \in s.snap)
    PROVE  LossInv'
<1>1. DOMAIN task = Turns /\ task'[t] = s /\ \A u \in Turns \ {t} : task'[u] = task[u]
    BY DEF Typed, MemTyped
<1>2. ASSUME NEW u \in Turns \ {t} PROVE CloneFits(task[u])'
  <2>1. task'[u] = task[u] /\ CloneFits(task[u])
      BY <1>1 DEF LossInv
  <2>2. task[u].evict # <<>> \/ task[u].pc \in {"count", "cache"} => Target(task[u]) \in Keys
      BY TargetType
  <2> QED BY <2>1, <2>2 DEF CloneFits, Gone
<1>3. CloneFits(task[t])'
    BY <1>1 DEF CloneFits, Gone
<1>4. ASSUME NEW k \in Keys, NEW m \in log'[k]
      PROVE  m \in Held(k)' \/ \E u \in Turns : Target(task'[u]) = k /\ m \in task'[u].snap
  <2>1. CASE m \in Held(k)' \/ (Target(s) = k /\ m \in s.snap)
      BY <1>1, <2>1
  <2>2. CASE m \in log[k]
    <3>1. CASE m \in Held(k)
        BY <3>1
    <3>2. ASSUME NEW u \in Turns, Target(task[u]) = k, m \in task[u].snap
          PROVE  m \in Held(k)' \/ \E v \in Turns : Target(task'[v]) = k /\ m \in task'[v].snap
      <4>1. CASE u = t
          BY <1>1, <3>2, <4>1
      <4>2. CASE u # t
          BY <1>1, <3>2, <4>2
      <4> QED BY <4>1, <4>2
    <3> QED BY <2>2, <3>1, <3>2 DEF LossInv, LogHeld
  <2> QED BY <1>4, <2>1, <2>2
<1>5. LogHeld'
    BY <1>4 DEF LogHeld, Held, InCache, Target
<1> QED BY <1>2, <1>3, <1>5 DEF LossInv
\* The same for a step of no turn.
LEMMA LossRest ==
    ASSUME Typed, LossInv, UNCHANGED <<task, log>>,
           \A k \in Keys : Gone(k) \subseteq Gone(k)' /\ Held(k) \subseteq Held(k)'
    PROVE  LossInv'
<1>1. ASSUME NEW u \in Turns PROVE CloneFits(task[u])'
  <2>1. CloneFits(task[u])
      BY DEF LossInv
  <2>2. task[u].evict # <<>> \/ task[u].pc \in {"count", "cache"} => Target(task[u]) \in Keys
      BY TargetType
  <2> QED BY <2>1, <2>2 DEF CloneFits, Target
<1>2. ASSUME NEW k \in Keys, NEW m \in log[k]
      PROVE  m \in Held(k)' \/ \E u \in Turns : Target(task[u]) = k /\ m \in task[u].snap
    BY <1>2 DEF LossInv, LogHeld
<1>3. LogHeld'
    BY <1>2 DEF LogHeld, Target
<1> QED BY <1>1, <1>3 DEF LossInv

\* The same for a step of a turn that leaves the history alone, and what it has
\* cloned as it is or drops it for what is held anyway.
LEMMA LossGoto ==
    ASSUME Typed, LossInv, [Next]_vars, NEW t \in Turns, NEW s, Goto(t, s),
           stored' = stored, UNCHANGED <<removed, log>>, overtaken \subseteq overtaken',
           s.pc \in {"count", "cache"} => s.snap \subseteq stored[Target(s)] \cup removed,
           s.evict # <<>> => Target(s) \in Keys /\ s.snap \subseteq Held(Target(s)),
           \A k \in Keys : \A m \in task[t].snap :
               Target(task[t]) = k =>
                   m \in Held(k) \/ m \in overtaken' \/ (Target(s) = k /\ m \in s.snap)
    PROVE  LossInv'
<1>1. \A k \in Keys : InCache(k)' = InCache(k)
    BY GotoInCache
<1>2. \A k \in Keys : Held(k) \subseteq Held(k)' /\ overtaken' \subseteq Held(k)'
    BY <1>1 DEF Held
<1>3. \A k \in Keys : Gone(k) \subseteq Gone(k)'
    BY GoneGrows
<1>4. task' = [task EXCEPT ![t] = s]
    BY DEF Goto, Step
<1>5. s.pc \in {"count", "cache"} => s.snap \subseteq stored'[Target(s)] \cup removed'
    OBVIOUS
<1>6. s.evict # <<>> => s.snap \subseteq Held(Target(s))'
    BY <1>2
<1>7. \A k \in Keys : \A m \in log'[k] :
        m \in log[k] \/ m \in Held(k)' \/ (Target(s) = k /\ m \in s.snap)
  <2>1. log' = log
      OBVIOUS
  <2> QED BY <2>1
<1>8. \A k \in Keys : \A m \in task[t].snap :
        Target(task[t]) = k => m \in Held(k)' \/ (Target(s) = k /\ m \in s.snap)
    BY <1>2
<1> QED BY <1>2, <1>3, <1>4, <1>5, <1>6, <1>7, <1>8, LossStep

\* An eviction that is saved or given up, or the end of a save.
LEMMA LossSaved ==
    ASSUME Typed, LossInv, [Next]_vars, NEW t \in Turns, task[t].pc = "count", Saved(t),
           \A k \in Keys : \A m \in log'[k] : m \in log[k] \/ m \in Gone(k)'
    PROVE  LossInv'
<1> DEFINE s == task[t]
           v == Head(s.evict)
<1>1. s \in TaskState /\ s.key \in Keys /\ s.arc = None /\ Target(s) \in Keys /\ CloneFits(s)
    BY TargetType DEF Typed, MemTyped, Fits, LossInv
<1>2. s.snap \subseteq Gone(Target(s))
    BY <1>1 DEF CloneFits
<1>3. \A k \in Keys : Gone(k) \subseteq Gone(k)' /\ Gone(k)' \subseteq Held(k)'
    BY GoneGrows DEF Gone, Held
<1>4. \A k \in Keys : \A m \in s.snap : Target(s) = k => m \in Held(k)'
    BY <1>2, <1>3
<1>5. \A k \in Keys : \A m \in log'[k] : m \in log[k] \/ m \in Held(k)'
    BY <1>3
<1>6. CASE s.evict = <<>>
  <2>1. PICK r \in {Answered(s), Failed} : Goto(t, r) /\ overtaken' = overtaken
      BY <1>6 DEF Saved
  <2>2. r.snap = {} /\ r.evict = <<>>
      BY <2>1 DEF Answered, Failed, Fresh
  <2>3. \A k \in Keys : InCache(k)' = InCache(k)
      BY <2>1, GotoInCache
  <2>4. \A k \in Keys : Held(k) \subseteq Held(k)'
      BY <1>3, <2>1, <2>3 DEF Held, Gone
  <2>5. task' = [task EXCEPT ![t] = r]
      BY <2>1 DEF Goto, Step
  <2>6. \A k \in Keys : Gone(k) \subseteq Gone(k)' /\ Held(k) \subseteq Held(k)'
      BY <1>3, <2>4
  <2>7. r.snap \subseteq stored'[Target(r)] \cup removed' /\ r.snap \subseteq Held(Target(r))'
      BY <2>2
  <2> QED BY <1>4, <1>5, <2>5, <2>6, <2>7, LossStep
<1>7. CASE s.evict # <<>>
  <2>1. v \in Keys /\ Target(s) = v
      BY <1>1, <1>7 DEF Target
  <2>2. PICK r \in {NextVictim(s)}, c \in {[cache EXCEPT ![v] = None]}, h \in {heap} :
          Step(t, r, c, h) /\ overtaken' = overtaken \cup (InCache(v) \ s.snap)
      BY <1>7 DEF Saved
  <2>3. r.snap = {}
      BY <1>1, <1>7, NextVictimProperties
  <2>4. ASSUME NEW k \in Keys PROVE Held(k) \subseteq Held(k)'
    <3>1. cache \in [Keys -> Arcs \cup {None}]
        BY DEF Typed, MemTyped
    <3>2. CASE k = v
        BY <1>2, <1>3, <2>1, <2>2, <3>2 DEF Held, Gone
    <3>3. CASE k # v
      <4>1. c[k] = cache[k] /\ c[k] \in Arcs \cup {None}
          BY <2>1, <3>1, <3>3
      <4>2. InCache(k)' = IF c[k] = None THEN {} ELSE h[c[k]]
          BY <2>2, <4>1, StepInCache
      <4>3. InCache(k)' = InCache(k)
          BY <4>1, <4>2 DEF InCache
      <4> QED BY <1>3, <2>2, <4>3 DEF Held, Gone
    <3> QED BY <3>2, <3>3
  <2>5. task' = [task EXCEPT ![t] = r]
      BY <2>2 DEF Step
  <2>6. \A k \in Keys : Gone(k) \subseteq Gone(k)' /\ Held(k) \subseteq Held(k)'
      BY <1>3, <2>4
  <2>7. r.snap \subseteq stored'[Target(r)] \cup removed' /\ r.snap \subseteq Held(Target(r))'
      BY <2>3
  <2> QED BY <1>4, <1>5, <2>5, <2>6, <2>7, LossStep
<1> QED BY <1>6, <1>7

\* A save that fails keeps the session in the cache, or says what it gives up.
LEMMA LossSaveFailed ==
    ASSUME Typed, LossInv, [Next]_vars, NEW t \in Turns, task[t].pc \in {"upsert", "insert"},
           SaveFailed(t), UNCHANGED <<stored, removed, log>>
    PROVE  LossInv'
<1> DEFINE s == task[t]
<1>1. s \in TaskState /\ s.key \in Keys /\ s.arc = None /\ CloneFits(s)
    BY DEF Typed, MemTyped, Fits, LossInv
<1>2. s.snap # {} \/ s.evict # <<>> => Target(s) \in Keys
    BY TargetType
<1>3. CASE s.evict = <<>> /\ Goto(t, Failed) /\ overtaken' = overtaken \cup (s.snap \ InCache(s.key))
  <2>1. Failed.snap = {} /\ Failed.evict = <<>> /\ Failed.pc = "failed"
      BY DEF Failed, Fresh
  <2>0. PICK r \in {Failed} : Goto(t, r)
      BY <1>3
  <2>2. \A k \in Keys : \A m \in s.snap : Target(s) = k => m \in Held(k) \/ m \in overtaken'
      BY <1>3 DEF Held, Target
  <2> QED BY <1>3, <2>0, <2>1, <2>2, LossGoto
<1>4. CASE /\ s.evict # <<>> /\ Goto(t, [s EXCEPT !.tries = @ + 1, !.pc = "upsert"])
           /\ UNCHANGED overtaken
  <2>0. PICK r \in {[s EXCEPT !.tries = @ + 1, !.pc = "upsert"]} : Goto(t, r)
      BY <1>4
  <2>1. r.pc = "upsert" /\ r.snap = s.snap /\ r.evict = s.evict /\ r.key = s.key
      BY <1>1 DEF TaskState
  <2>2. Target(r) = Target(s)
      BY <2>1 DEF Target
  <2>3. r.evict # <<>> => Target(r) \in Keys /\ r.snap \subseteq Held(Target(r))
      BY <1>1, <1>2, <2>1, <2>2 DEF CloneFits
  <2>4. \A k \in Keys : \A m \in s.snap : Target(s) = k => Target(r) = k /\ m \in r.snap
      BY <2>1, <2>2
  <2> QED BY <1>4, <2>0, <2>1, <2>3, <2>4, LossGoto
<1>5. CASE s.evict # <<>> /\ Goto(t, NextVictim(s)) /\ UNCHANGED overtaken
  <2>0. PICK r \in {NextVictim(s)} : Goto(t, r)
      BY <1>5
  <2>1. r.snap = {} /\ r.evict = Tail(s.evict) /\ r.pc \in {"snapshot", "push", "load"}
      BY <1>1, <1>5, <2>0, NextVictimProperties
  <2>2. r.evict # <<>> => Target(r) \in Keys
    <3>1. s.evict \in Seq(Keys) /\ Tail(s.evict) \in Seq(Keys)
        BY <1>1, <1>5 DEF TaskState
    <3> HIDE DEF s
    <3>2. r.evict # <<>> => Head(r.evict) \in Keys
        BY <2>1, <3>1
    <3> QED BY <3>2 DEF Target
  <2>3. s.snap \subseteq Held(Target(s))
      BY <1>1, <1>5 DEF CloneFits
  <2> QED BY <1>5, <2>0, <2>1, <2>2, <2>3, LossGoto
<1> QED BY <1>3, <1>4, <1>5 DEF SaveFailed
\* Of a loaded session that another turn put into the cache meanwhile, the copy
\* is dropped; its messages are in the table, or were deleted.
LEMMA LossCacheInsert ==
    ASSUME Typed, LossInv, [Next]_vars, NEW t \in Turns, CacheInsert(t)
    PROVE  LossInv'
<1> DEFINE s == task[t]
<1>1. s \in TaskState /\ s.key \in Keys /\ s.evict = <<>> /\ s.pc = "cache" /\ CloneFits(s)
    BY CacheInsertProperties DEF LossInv, CacheInsert
<1>2. UNCHANGED <<stored, log, removed, overtaken>>
    BY DEF CacheInsert, dbVars, history
<1>3. PICK a \in Arcs, h \in [Arcs -> SUBSET (1..clock)] :
        /\ a[1] = s.key
        /\ cache[s.key] # None => a = cache[s.key] /\ h = heap
        /\ cache[s.key] = None => h = [heap EXCEPT ![a] = s.snap]
        /\ Step(t, [s EXCEPT !.pc = "push", !.arc = a, !.snap = {}],
                [cache EXCEPT ![s.key] = a], h)
    BY CacheInsertProperties
<1>4. PICK r \in {[s EXCEPT !.pc = "push", !.arc = a, !.snap = {}]},
           c \in {[cache EXCEPT ![s.key] = a]} : Step(t, r, c, h)
    BY <1>3
<1>5. r.pc = "push" /\ r.snap = {}
    BY <1>1, <1>4 DEF TaskState
<1>6. cache \in [Keys -> Arcs \cup {None}] /\ CacheFits /\ heap \in [Arcs -> SUBSET (1..clock)]
    BY DEF Typed, MemTyped
<1>7. \A k \in Keys : c[k] = (IF k = s.key THEN a ELSE cache[k]) /\ c[k] \in Arcs \cup {None}
    BY <1>1, <1>4, <1>6
<1>8. ASSUME NEW k \in Keys PROVE InCache(k) \subseteq InCache(k)'
  <2>1. InCache(k)' = IF c[k] = None THEN {} ELSE h[c[k]]
      BY <1>4, <1>7, StepInCache
  <2>2. CASE cache[k] = None
      BY <2>2 DEF InCache
  <2>3. CASE cache[k] # None
    <3>1. c[k] = cache[k]
        BY <1>3, <1>7, <2>3
    <3>2. h[cache[k]] = heap[cache[k]]
        BY <1>3, <1>6, <2>3 DEF CacheFits
    <3> QED BY <2>1, <2>3, <3>1, <3>2 DEF InCache
  <2> QED BY <2>2, <2>3
<1>9. \A k \in Keys : Gone(k) \subseteq Gone(k)' /\ Held(k) \subseteq Held(k)' /\ Gone(k) \subseteq Held(k)
    BY <1>2, <1>8, GoneGrows DEF Held, Gone
<1>10. \A k \in Keys : \A m \in s.snap : Target(s) = k => m \in Held(k)'
    BY <1>1, <1>9 DEF CloneFits
<1>11. task' = [task EXCEPT ![t] = r]
    BY <1>4 DEF Step
<1>12. \A k \in Keys : \A m \in log'[k] : m \in log[k]
    BY <1>2
<1>13. r.snap \subseteq Held(Target(r))'
    BY <1>5
<1> QED BY <1>5, <1>9, <1>10, <1>11, <1>12, <1>13, LossStep, ZenonT(60)

\* A push adds to the session and may trim it, and the clone of it has what is left.
LEMMA LossPush ==
    ASSUME Typed, LossInv, [Next]_vars, NEW t \in Turns, Push(t)
    PROVE  LossInv'
<1> DEFINE s == task[t]
<1>1. PICK added \in SUBSET {clock + 1}, kept \in SUBSET (1..clock'), r \in TaskState :
        LET grown == heap[s.arc] \cup added IN
        /\ r = [s EXCEPT !.arc = None,
                         !.pc = IF s.stage = "user" THEN "model" ELSE "upsert",
                         !.snap = IF s.stage = "user" THEN {} ELSE kept,
                         !.answer = IF s.stage = "answer" THEN clock' ELSE 0]
        /\ s \in TaskState /\ s.key \in Keys /\ s.evict = <<>>
        /\ s.arc \in Arcs /\ s.arc[1] = s.key /\ s.snap = {}
        /\ removed' = removed \cup ((grown \ kept) \ stored[s.key])
        /\ log' = [log EXCEPT ![s.key] = @ \cup added]
        /\ overtaken' = IF s.stage = "user" /\ cache[s.key] # s.arc
                          THEN overtaken \cup added ELSE overtaken
        /\ Step(t, r, cache, [heap EXCEPT ![s.arc] = kept])
    BY PushProperties
<1>2. stored' = stored
    BY DEF Push, dbVars
<1>3. PICK c \in {cache}, h \in {[heap EXCEPT ![s.arc] = kept]} : Step(t, r, c, h)
    BY <1>1
<1>4. /\ r.pc = IF s.stage = "user" THEN "model" ELSE "upsert"
      /\ r.snap = IF s.stage = "user" THEN {} ELSE kept
      /\ r.key = s.key /\ r.evict = <<>>
    BY <1>1 DEF TaskState
<1>5. cache \in [Keys -> Arcs \cup {None}] /\ CacheFits /\ heap \in [Arcs -> SUBSET (1..clock)]
    BY DEF Typed, MemTyped
<1>6. ASSUME NEW k \in Keys
      PROVE  InCache(k)' = IF cache[k] = None THEN {}
                           ELSE IF cache[k] = s.arc THEN kept ELSE heap[cache[k]]
  <2>0. c = cache /\ c[k] \in Arcs \cup {None}
      BY <1>5
  <2>1. InCache(k)' = IF c[k] = None THEN {} ELSE h[c[k]]
    <3>1. Step(t, r, c, h)
        BY <1>3
    <3> HIDE DEF s
    <3> QED BY <2>0, <3>1, StepInCache
  <2> HIDE DEF s
  <2> QED BY <1>1, <1>3, <1>5, <2>1
<1>7. ASSUME NEW k \in Keys PROVE Held(k) \subseteq Held(k)'
  <2>1. CASE cache[k] # None /\ cache[k] = s.arc
    <3>1. k = s.key
        BY <1>1, <1>5, <2>1 DEF CacheFits
    <3>2. InCache(k) = heap[s.arc] /\ InCache(k)' = kept
        BY <1>6, <2>1 DEF InCache
    <3> HIDE DEF s
    <3> QED BY <1>1, <1>2, <3>1, <3>2 DEF Held
  <2>2. CASE ~(cache[k] # None /\ cache[k] = s.arc)
    <3>1. InCache(k) = InCache(k)'
        BY <1>6, <2>2 DEF InCache
    <3> HIDE DEF s
    <3> QED BY <1>1, <1>2, <3>1 DEF Held
  <2> QED BY <2>1, <2>2
<1>8. ASSUME NEW k \in Keys, NEW m \in log'[k]
      PROVE  m \in log[k] \/ m \in Held(k)' \/ (Target(r) = k /\ m \in r.snap)
  <2>1. log \in [Keys -> SUBSET (1..clock)]
      BY DEF Typed, RestTyped
  <2>2. CASE m \in log[k]
      BY <2>2
  <2>3. CASE m \notin log[k]
    <3>1. k = s.key /\ m \in added
        BY <1>1, <1>8, <2>1, <2>3
    <3>2. Target(r) = k
        BY <1>4, <3>1 DEF Target
    <3>3. CASE m \notin kept
        BY <1>1, <1>2, <3>1, <3>3 DEF Held
    <3>4. CASE m \in kept /\ s.stage # "user"
        BY <1>4, <3>2, <3>4
    <3>5. CASE m \in kept /\ s.stage = "user" /\ cache[k] # s.arc
        BY <1>1, <3>1, <3>5 DEF Held
    <3>6. CASE m \in kept /\ cache[k] = s.arc
      <4>1. s.arc # None
          BY <1>1, SessionAssumption
      <4>2. InCache(k)' = kept
          BY <1>6, <3>6, <4>1
      <4> QED BY <3>6, <4>2 DEF Held
    <3> QED BY <3>3, <3>4, <3>5, <3>6
  <2> QED BY <2>2, <2>3
<1>9. task' = [task EXCEPT ![t] = r]
    BY <1>3 DEF Step
<1>10. \A k \in Keys : Gone(k) \subseteq Gone(k)' /\ Held(k) \subseteq Held(k)'
    BY <1>7, GoneGrows
<1>11. r.pc \notin {"count", "cache"} /\ r.evict = <<>> /\ task[t].snap = {}
    BY <1>1, <1>4
<1>12. \A k \in Keys : \A m \in log'[k] :
         m \in log[k] \/ m \in Held(k)' \/ (Target(r) = k /\ m \in r.snap)
    BY <1>8
<1> HIDE DEF s
<1> QED BY <1>9, <1>10, <1>11, <1>12, LossStep
LEMMA LossAdvance ==
    ASSUME Typed, LossInv, [Next]_vars, NEW t \in Turns, Advance(t)
    PROVE  LossInv'
<1> DEFINE s == task[t]
<1>1. s \in TaskState /\ Fits(s, clock) /\ CloneFits(s)
    BY DEF Typed, MemTyped, LossInv
<1>2. CASE Touch(t)
  <2>1. PICK r \in TaskState :
          /\ Goto(t, r) /\ r.snap = {} /\ r.pc \in {"push", "load", "snapshot"}
          /\ Fits(r, clock)
      BY <1>2, TouchProperties
  <2>2. r.evict # <<>> => Target(r) \in Keys
    <3>1. r.evict \in Seq(Keys)
        BY DEF TaskState
    <3> QED BY <3>1 DEF Target
  <2>3. task[t].snap = {}
      BY <1>1, <1>2 DEF Fits, Touch
  <2>4. UNCHANGED <<stored, log, removed, overtaken>>
      BY <1>2 DEF Touch, dbVars, history
  <2> QED BY <2>1, <2>2, <2>3, <2>4, LossGoto
<1>3. CASE Snapshot(t)
  <2> DEFINE v == Head(s.evict)
  <2>1. s.pc = "snapshot" /\ s.evict # <<>> /\ s.key \in Keys /\ s.arc = None /\ s.snap = {}
      BY <1>1, <1>3 DEF Snapshot, Fits
  <2>2. UNCHANGED <<stored, log, removed, overtaken>>
      BY <1>3 DEF Snapshot, dbVars, history
  <2>3. s.evict \in Seq(Keys) /\ Tail(s.evict) \in Seq(Keys) /\ v \in Keys
      BY <1>1, <2>1, TargetType DEF TaskState
  <2>4. CASE Goto(t, NextVictim(s))
    <3>1. PICK r \in {NextVictim(s)} : Goto(t, r)
        BY <2>4
    <3>2. r.snap = {} /\ r.evict = Tail(s.evict) /\ r.pc \in {"snapshot", "push", "load"}
        BY <1>1, <2>1, <3>1, NextVictimProperties
    <3>3. r.evict # <<>> => Target(r) \in Keys
      <4> HIDE DEF s
      <4>1. r.evict # <<>> => Head(r.evict) \in Keys
          BY <2>3, <3>2
      <4> QED BY <4>1 DEF Target
    <3> QED BY <2>1, <2>2, <3>1, <3>2, <3>3, LossGoto
  <2>5. CASE /\ cache[v] # None
             /\ Goto(t, [s EXCEPT !.pc = "upsert", !.snap = heap[cache[v]]])
    <3>1. PICK r \in {[s EXCEPT !.pc = "upsert", !.snap = heap[cache[v]]]} : Goto(t, r)
        BY <2>5
    <3>2. r.pc = "upsert" /\ r.snap = InCache(v) /\ r.evict = s.evict
        BY <1>1, <2>5, <3>1 DEF TaskState, InCache
    <3>3. Target(r) = v
        BY <2>1, <3>2 DEF Target
    <3>4. r.snap \subseteq Held(Target(r))
        BY <3>2, <3>3 DEF Held
    <3> QED BY <2>1, <2>2, <2>3, <3>1, <3>2, <3>3, <3>4, LossGoto
  <2> QED BY <1>3, <2>4, <2>5 DEF Snapshot
<1>4. CASE Upsert(t)
  <2>1. PICK r \in {[s EXCEPT !.pc = IF s.snap = {} THEN "count" ELSE "insert"]} : Goto(t, r)
      BY <1>4 DEF Upsert
  <2>2. /\ r.pc = (IF s.snap = {} THEN "count" ELSE "insert")
        /\ r.snap = s.snap /\ r.evict = s.evict /\ r.key = s.key
      BY <1>1, <2>1 DEF TaskState
  <2>3. UNCHANGED <<stored, log, removed, overtaken>>
      BY <1>4 DEF Upsert, history
  <2>4. Target(r) = Target(s)
      BY <2>2 DEF Target
  <2>5. r.evict # <<>> => Target(r) \in Keys /\ r.snap \subseteq Held(Target(r))
      BY <1>1, <2>2, <2>4, TargetType DEF CloneFits
  <2>6. r.pc \in {"count", "cache"} => r.snap \subseteq stored[Target(r)] \cup removed
      BY <2>2
  <2>7. \A k \in Keys : \A m \in s.snap : Target(s) = k => Target(r) = k /\ m \in r.snap
      BY <2>2, <2>4
  <2> QED BY <2>1, <2>3, <2>5, <2>6, <2>7, LossGoto
<1>5. CASE Insert(t)
  <2>1. CASE SaveFailed(t) /\ UNCHANGED stored
      BY <1>5, <2>1, LossSaveFailed DEF Insert
  <2>2. CASE /\ stored' = [stored EXCEPT ![Target(s)] = @ \cup s.snap]
             /\ Goto(t, [s EXCEPT !.pc = "count"]) /\ UNCHANGED overtaken
    <3>1. PICK r \in {[s EXCEPT !.pc = "count"]} : Goto(t, r)
        BY <2>2
    <3>2. r.pc = "count" /\ r.snap = s.snap /\ r.evict = s.evict /\ r.key = s.key
        BY <1>1, <3>1 DEF TaskState
    <3>3. UNCHANGED <<log, removed, overtaken>>
        BY <1>5, <2>2 DEF Insert
    <3>4. Target(r) = Target(s)
        BY <3>2 DEF Target
    <3>5. stored \in [Keys -> SUBSET (1..clock)]
        BY DEF Typed, RestTyped
    <3>6. s.snap # {} => Target(s) \in Keys
        BY TargetType
    <3>7. r.snap \subseteq stored'[Target(r)]
      <4> DEFINE k == Target(s)
      <4>1. s.snap # {} => stored'[k] = stored[k] \cup s.snap
        <5> HIDE DEF s, k
        <5> QED BY <2>2, <3>5, <3>6 DEF k
      <4> QED BY <3>2, <3>4, <4>1
    <3>8. \A k \in Keys : stored[k] \subseteq stored'[k]
      <4> HIDE DEF s
      <4> QED BY <2>2, <3>5
    <3>9. \A k \in Keys : InCache(k)' = InCache(k)
        BY <3>1, GotoInCache
    <3>10. \A k \in Keys : Gone(k) \subseteq Gone(k)' /\ Held(k) \subseteq Held(k)'
        BY <3>3, <3>8, <3>9 DEF Gone, Held
    <3>11. r.snap \subseteq stored'[Target(r)] \cup removed' /\ r.snap \subseteq Held(Target(r))'
        BY <3>7 DEF Held
    <3>12. \A k \in Keys : \A m \in s.snap : Target(s) = k => Target(r) = k /\ m \in r.snap
        BY <3>2, <3>4
    <3>13. task' = [task EXCEPT ![t] = r] /\ \A k \in Keys : log'[k] = log[k]
        BY <3>1, <3>3 DEF Goto, Step
    <3> QED BY <3>10, <3>11, <3>12, <3>13, LossStep
  <2> QED BY <1>5, <2>1, <2>2 DEF Insert
<1>6. CASE Count(t)
  <2> DEFINE l == Target(s)
  <2>1. PICK added \in SUBSET {clock + 1}, kept \in SUBSET (1..clock') :
          /\ l \in Keys
          /\ stored' = [stored EXCEPT ![l] = kept]
          /\ log' = [log EXCEPT ![l] = @ \cup (stored[l] \cup added)]
          /\ removed' = removed \cup ((stored[l] \cup added) \ kept)
          /\ task[t].pc = "count" /\ Saved(t)
      BY <1>6, CountProperties
  <2>2. log \in [Keys -> SUBSET (1..clock)] /\ stored \in [Keys -> SUBSET (1..clock)]
      BY DEF Typed, RestTyped
  <2>3. \A k \in Keys : \A m \in log'[k] : m \in log[k] \/ m \in Gone(k)'
    <3> HIDE DEF l
    <3> QED BY <2>1, <2>2 DEF Gone
  <2> QED BY <2>1, <2>3, LossSaved
<1>7. CASE Load(t)
  <2>1. s.pc = "load" /\ s.key \in Keys /\ s.snap = {} /\ s.evict = <<>>
      BY <1>1, <1>7 DEF Load, Fits
  <2>2. PICK r \in {[s EXCEPT !.pc = "cache", !.snap = stored[s.key]], [s EXCEPT !.pc = "create"]} :
          Goto(t, r)
      BY <1>7 DEF Load
  <2>3. /\ r.evict = <<>> /\ r.key = s.key
        /\ r.pc = "create" \/ (r.pc = "cache" /\ r.snap = stored[s.key])
      BY <1>1, <2>1, <2>2 DEF TaskState
  <2>4. r.pc \in {"count", "cache"} => r.snap \subseteq stored[Target(r)] \cup removed
      BY <2>3 DEF Target
  <2>5. UNCHANGED <<stored, log, removed, overtaken>>
      BY <1>7 DEF Load, dbVars, history
  <2> QED BY <2>1, <2>2, <2>3, <2>4, <2>5, LossGoto
<1>8. CASE Create(t)
  <2>1. s.pc = "create" /\ s.key \in Keys /\ s.snap = {} /\ s.evict = <<>>
      BY <1>1, <1>8 DEF Create, Fits
  <2>2. PICK r \in {[s EXCEPT !.pc = "cache", !.snap = {}]} : Goto(t, r)
      BY <1>8 DEF Create
  <2>3. r.evict = <<>> /\ r.snap = {}
      BY <1>1, <2>1, <2>2 DEF TaskState
  <2>4. UNCHANGED <<stored, log, removed, overtaken>>
      BY <1>8 DEF Create, history
  <2> QED BY <2>1, <2>2, <2>3, <2>4, LossGoto
<1>9. CASE CacheInsert(t)
    BY <1>9, LossCacheInsert
<1>10. CASE Push(t)
    BY <1>10, LossPush
<1>11. CASE Model(t)
  <2>1. s.pc = "model" /\ s.snap = {} /\ s.evict = <<>>
      BY <1>1, <1>11 DEF Model, Fits
  <2>2. PICK r \in {[s EXCEPT !.stage = "answer", !.pc = "touch"],
                    [s EXCEPT !.stage = "persist", !.pc = "touch"], Failed} : Goto(t, r)
      BY <1>11 DEF Model
  <2>3. r.evict = <<>> /\ r.snap = {}
      BY <1>1, <2>1, <2>2 DEF TaskState, Failed, Fresh
  <2>4. UNCHANGED <<stored, log, removed, overtaken>>
      BY <1>11 DEF Model, dbVars, history
  <2> QED BY <2>1, <2>2, <2>3, <2>4, LossGoto
<1> QED BY <1>2, <1>3, <1>4, <1>5, <1>6, <1>7, <1>8, <1>9, <1>10, <1>11 DEF Advance
LEMMA LossNext == Typed /\ LossInv /\ [Next]_vars => LossInv'
<1> SUFFICES ASSUME Typed, LossInv, [Next]_vars PROVE LossInv'
    OBVIOUS
<1>0. \A k \in Keys : Gone(k) \subseteq Gone(k)'
    BY GoneGrows
<1>1. ASSUME NEW t \in Turns, StatementFails(t) PROVE LossInv'
  <2> DEFINE s == task[t]
  <2>1. UNCHANGED <<stored, removed, log>>
      BY <1>1 DEF StatementFails, dbVars
  <2>2. CASE s.pc \in {"load", "create"} /\ Goto(t, Failed) /\ UNCHANGED overtaken
    <3>1. s.snap = {}
        BY <2>2 DEF Typed, MemTyped, Fits
    <3>2. PICK r \in {Failed} : Goto(t, r)
        BY <2>2
    <3>3. r.snap = {} /\ r.evict = <<>>
        BY <3>2 DEF Failed, Fresh
    <3> QED BY <2>1, <2>2, <3>1, <3>2, <3>3, LossGoto
  <2>3. CASE s.pc \in {"upsert", "insert"} /\ SaveFailed(t)
      BY <2>1, <2>3, LossSaveFailed
  <2>4. CASE s.pc = "count" /\ Saved(t)
    <3>1. \A k \in Keys : \A m \in log'[k] : m \in log[k]
        BY <2>1
    <3> QED BY <2>4, <3>1, LossSaved
  <2> QED BY <1>1, <2>2, <2>3, <2>4 DEF StatementFails
<1>2. ASSUME NEW t \in Turns, NEW k \in Keys, NEW kind \in {"streaming", "channel"},
             Send(t, k, kind)
      PROVE  LossInv'
  <2>1. PICK r \in {[task[t] EXCEPT !.key = k, !.kind = kind, !.pc = "touch"]} : Goto(t, r)
      BY <1>2 DEF Send
  <2>2. task[t] \in TaskState /\ task[t].snap = {} /\ task[t].evict = <<>>
      BY <1>2 DEF Typed, MemTyped, Fits, Send
  <2>3. r.pc = "touch" /\ r.snap = {} /\ r.evict = <<>>
      BY <2>1, <2>2 DEF TaskState
  <2>4. UNCHANGED <<stored, log, removed, overtaken>>
      BY <1>2 DEF Send, history
  <2> QED BY <2>1, <2>2, <2>3, <2>4, LossGoto
<1>3. ASSUME NEW l \in Keys, DeleteThread(l) PROVE LossInv'
  <2>1. ASSUME NEW k \in Keys PROVE Held(k) \subseteq Held(k)'
    <3>1. InCache(k)' = InCache(k) /\ overtaken' = overtaken
        BY <1>3 DEF DeleteThread, memVars, InCache
    <3> QED BY <1>0, <3>1 DEF Held, Gone
  <2> QED BY <1>0, <1>3, <2>1, LossRest DEF DeleteThread
<1>4. ASSUME NEW l \in Keys, ResetBegin(l) PROVE LossInv'
  <2>1. /\ cache' = [cache EXCEPT ![l] = None] /\ heap' = Dropped(heap, cache', task)
        /\ removed' = removed \cup InCache(l) /\ stored' = stored
        /\ UNCHANGED <<task, log, overtaken>>
      BY <1>4 DEF ResetBegin, dbVars
  <2>2. ASSUME NEW k \in Keys PROVE Held(k) \subseteq Held(k)'
    <3>1. cache \in [Keys -> Arcs \cup {None}]
        BY DEF Typed, MemTyped
    <3>2. CASE k = l
        BY <2>1, <3>2 DEF Held
    <3>3. CASE k # l
      <4>1. cache'[k] = cache[k]
          BY <2>1, <3>1, <3>3
      <4>2. InCache(k)' = InCache(k)
          BY <2>1, <3>1, <4>1 DEF InCache, Dropped
      <4> QED BY <2>1, <4>2 DEF Held
    <3> QED BY <3>2, <3>3
  <2> QED BY <1>0, <2>1, <2>2, LossRest
<1>5. CASE ResetDelete
  <2>1. UNCHANGED <<cache, heap, task, log, overtaken>>
      BY <1>5 DEF ResetDelete, memVars
  <2>2. ASSUME NEW k \in Keys PROVE Held(k) \subseteq Held(k)'
    <3>1. InCache(k)' = InCache(k)
        BY <2>1 DEF InCache
    <3> QED BY <1>0, <2>1, <3>1 DEF Held, Gone
  <2> QED BY <1>0, <2>1, <2>2, LossRest
<1>6. CASE UNCHANGED vars
  <2>1. UNCHANGED <<stored, cache, heap, task, log, removed, overtaken>>
      BY <1>6 DEF vars, dbVars, memVars, history
  <2>2. ASSUME NEW k \in Keys PROVE Held(k) \subseteq Held(k)'
    <3>1. InCache(k)' = InCache(k)
        BY <2>1 DEF InCache
    <3> QED BY <1>0, <2>1, <3>1 DEF Held, Gone
  <2> QED BY <1>0, <2>1, <2>2, LossRest
<1> QED BY <1>1, <1>2, <1>3, <1>4, <1>5, <1>6, LossAdvance DEF Next

\* Nothing that was said is lost but for the reasons LossIsExplained lists,
\* whatever the number of keys, turns, failing statements and deletions: a clone is
\* given up only when the table or the cache has what is in it, or by the failed last
\* save of a turn whose session was evicted before, which overtaken records.
THEOREM LossCorrect == Spec => []LossIsExplained
<1>1. Init => LossInv
  <2> SUFFICES ASSUME Init PROVE LossInv
      OBVIOUS
  <2>1. \A t \in Turns : CloneFits(task[t])
      BY DEF Init, Fresh, CloneFits
  <2>2. LogHeld
      BY DEF Init, LogHeld, Held
  <2> QED BY <2>1, <2>2 DEF LossInv
<1>2. Typed /\ LossInv => LossIsExplained
    BY LogHeldExplains DEF LossInv
<1> QED BY <1>1, <1>2, LossNext, TypedCorrect, PTL DEF Spec

-----------------------------------------------------------------------------
(* What /reset deletes while nothing works on the conversation.            *)

\* The turn does not work on k, nor will it.
Clear(s, k) ==
    s.pc \notin {"idle", "answered", "failed"} => s.key # k /\ ~Contains(s.evict, k)

\* Between the two steps of a quiet /reset nothing leads back to the key.
QuietInv ==
    quietReset => \A k \in Keys : resetting = k =>
        /\ cache[k] = None
        /\ ~Contains(lru, k)
        /\ \A t \in Turns : Clear(task[t], k)

LEMMA NextVictimClear ==
    ASSUME Typed, NEW s \in TaskState, s.key \in Keys, s.evict # <<>>, s.arc = None,
           s.pc \notin {"idle", "answered", "failed"}, NEW k, Clear(s, k)
    PROVE  Clear(NextVictim(s), k) /\ Head(s.evict) # k
<1>1. NextVictim(s).key = s.key /\ NextVictim(s).evict = Tail(s.evict)
    BY NextVictimProperties
<1>2. s.evict \in Seq(Keys) /\ s.key # k /\ \A i \in 1..Len(s.evict) : s.evict[i] # k
    BY DEF TaskState, Clear, Contains
<1> DEFINE e == s.evict
<1>3. Head(e) # k /\ \A i \in 1..Len(Tail(e)) : Tail(e)[i] # k
  <2> HIDE DEF e
  <2>1. e \in Seq(Keys) /\ e # <<>> /\ \A i \in 1..Len(e) : e[i] # k
      BY <1>2 DEF e
  <2> QED BY <2>1
<1> QED BY <1>1, <1>2, <1>3 DEF Clear, Contains

LEMMA QuietNext == Typed /\ QuietInv /\ [Next]_vars => QuietInv'
<1> SUFFICES ASSUME Typed, QuietInv, [Next]_vars, quietReset', NEW k \in Keys, resetting' = k
             PROVE  /\ cache'[k] = None
                    /\ ~Contains(lru', k)
                    /\ \A t \in Turns : Clear(task'[t], k)
    BY DEF QuietInv
<1> DEFINE Quiet == cache[k] = None /\ ~Contains(lru, k) /\ \A t \in Turns : Clear(task[t], k)
           Still == cache'[k] = None /\ ~Contains(lru', k) /\ \A t \in Turns : Clear(task'[t], k)
<1>1. DOMAIN task = Turns /\ cache \in [Keys -> Arcs \cup {None}]
    BY DEF Typed, MemTyped
<1>2. UNCHANGED resetVars => Quiet
    BY DEF QuietInv, resetVars
<1>3. ASSUME NEW t \in Turns, NEW s, NEW c, NEW h, Step(t, s, c, h), Quiet,
             c[k] = None, ~Contains(lru', k), Clear(s, k)
      PROVE  Still
    BY <1>1, <1>3 DEF Step
<1>4. ASSUME NEW t \in Turns, NEW s, Goto(t, s), Quiet, ~Contains(lru', k), Clear(s, k)
      PROVE  Still
    BY <1>3, <1>4 DEF Goto
<1>5. Clear(Failed, k)
    BY DEF Clear, Failed, Fresh
<1>6. ASSUME NEW t \in Turns, task[t].pc = "count", Saved(t), UNCHANGED lru, Quiet PROVE Still
  <2> DEFINE s == task[t]
  <2>1. s \in TaskState /\ s.key \in Keys /\ s.arc = None /\ Clear(s, k)
      BY <1>6 DEF Typed, MemTyped, Fits
  <2>2. CASE s.evict = <<>>
    <3>1. Clear(Answered(s), k)
        BY DEF Clear, Answered, Fresh
    <3> QED BY <1>4, <1>5, <1>6, <2>2, <3>1 DEF Saved
  <2>3. CASE s.evict # <<>>
    <3>1. Step(t, NextVictim(s), [cache EXCEPT ![Head(s.evict)] = None], heap)
        BY <1>6, <2>3 DEF Saved
    <3>2. [cache EXCEPT ![Head(s.evict)] = None][k] = None
        BY <1>1, <1>6
    <3>3. Clear(NextVictim(s), k)
        BY <1>6, <2>1, <2>3, NextVictimClear
    <3> QED BY <1>3, <1>6, <3>1, <3>2, <3>3
  <2> QED BY <2>2, <2>3
<1>7. ASSUME NEW t \in Turns, task[t].pc \in {"upsert", "insert"}, SaveFailed(t), Quiet PROVE Still
  <2> DEFINE s == task[t]
             v == Head(s.evict)
  <2>1. s \in TaskState /\ s.key \in Keys /\ s.arc = None /\ Clear(s, k)
      BY <1>7 DEF Typed, MemTyped, Fits
  <2>2. CASE Goto(t, Failed) /\ UNCHANGED lru
      BY <1>4, <1>5, <1>7, <2>2
  <2>3. CASE Goto(t, [s EXCEPT !.tries = @ + 1, !.pc = "upsert"]) /\ UNCHANGED lru
    <3>1. Clear([s EXCEPT !.tries = @ + 1, !.pc = "upsert"], k)
        BY <1>7, <2>1 DEF Clear, TaskState
    <3> QED BY <1>4, <1>7, <2>3, <3>1
  <2>4. CASE /\ s.evict # <<>> /\ Goto(t, NextVictim(s))
             /\ lru' = IF Contains(lru, v) THEN lru ELSE Append(lru, v)
    <3>1. Clear(NextVictim(s), k) /\ v # k
        BY <1>7, <2>1, <2>4, NextVictimClear
    <3>2. lru \in Seq(Keys) /\ \A i \in 1..Len(lru) : lru[i] # k
        BY <1>7 DEF Typed, RestTyped, Contains
    <3>3. ~Contains(lru', k)
      <4> HIDE DEF v
      <4>1. v \in Keys
          BY <2>4, TargetType DEF v
      <4>2. \A i \in 1..Len(Append(lru, v)) : Append(lru, v)[i] # k
          BY <3>1, <3>2, <4>1
      <4> QED BY <2>4, <3>2, <4>2 DEF Contains
    <3> QED BY <1>4, <1>7, <2>4, <3>1, <3>3
  <2> QED BY <1>7, <2>2, <2>3, <2>4 DEF SaveFailed
<1>8. ASSUME NEW t \in Turns, Advance(t), Quiet PROVE Still
  <2> DEFINE s == task[t]
  <2>0. s \in TaskState /\ Fits(s, clock) /\ Clear(s, k)
      BY <1>8 DEF Typed, MemTyped
  <2>1. CASE Touch(t)
    <3>1. s.pc = "touch" /\ s.key # k
        BY <2>0, <2>1 DEF Touch, Clear
    <3>2. /\ \A i \in 1..Len(lru') : lru'[i] = s.key \/ Contains(lru, lru'[i])
          /\ \E r \in TaskState :
               /\ Goto(t, r) /\ r.key = s.key
               /\ \A i \in 1..Len(r.evict) : r.evict[i] = s.key \/ Contains(lru, r.evict[i])
        BY <2>1, TouchProperties
    <3>3. ~Contains(lru', k)
      <4>1. ASSUME NEW i \in 1..Len(lru'), lru'[i] = k PROVE FALSE
          BY <1>8, <3>1, <3>2, <4>1
      <4> QED BY <4>1 DEF Contains
    <3>4. PICK r \in TaskState :
            /\ Goto(t, r) /\ r.key = s.key
            /\ \A i \in 1..Len(r.evict) : r.evict[i] = s.key \/ Contains(lru, r.evict[i])
        BY <3>2
    <3>5. ~Contains(r.evict, k)
      <4>1. ASSUME NEW i \in 1..Len(r.evict), r.evict[i] = k PROVE FALSE
          BY <1>8, <3>1, <3>4, <4>1
      <4> QED BY <4>1 DEF Contains
    <3>6. Clear(r, k)
        BY <3>1, <3>4, <3>5 DEF Clear
    <3> QED BY <1>4, <1>8, <3>3, <3>4, <3>6
  <2>2. CASE Snapshot(t)
    <3> DEFINE u == [s EXCEPT !.pc = "upsert", !.snap = heap[cache[Head(s.evict)]]]
    <3>1. s.pc = "snapshot" /\ s.evict # <<>> /\ s.key \in Keys /\ s.arc = None /\ UNCHANGED lru
        BY <2>0, <2>2 DEF Snapshot, Fits
    <3>2. Clear(NextVictim(s), k)
        BY <2>0, <3>1, NextVictimClear
    <3>3. Clear(u, k)
        BY <2>0, <3>1 DEF Clear, TaskState
    <3>4. Goto(t, NextVictim(s)) \/ Goto(t, u)
        BY <2>2 DEF Snapshot
    <3> QED BY <1>4, <1>8, <3>1, <3>2, <3>3, <3>4
  <2>3. CASE Upsert(t)
    <3> DEFINE r == [s EXCEPT !.pc = IF s.snap = {} THEN "count" ELSE "insert"]
    <3>1. Goto(t, r) /\ UNCHANGED lru /\ s.pc = "upsert"
        BY <2>3 DEF Upsert
    <3>2. Clear(r, k)
        BY <2>0, <3>1 DEF Clear, TaskState
    <3> QED BY <1>4, <1>8, <3>1, <3>2
  <2>4. CASE Insert(t)
    <3>1. s.pc = "insert"
        BY <2>4 DEF Insert
    <3>2. Clear([s EXCEPT !.pc = "count"], k)
        BY <2>0, <3>1 DEF Clear, TaskState
    <3>3. (Goto(t, [s EXCEPT !.pc = "count"]) /\ UNCHANGED lru) \/ SaveFailed(t)
        BY <2>4 DEF Insert
    <3> QED BY <1>4, <1>7, <1>8, <3>1, <3>2, <3>3
  <2>5. CASE Count(t)
      BY <1>6, <1>8, <2>5 DEF Count
  <2>6. CASE Load(t)
    <3>1. PICK r \in {[s EXCEPT !.pc = "cache", !.snap = stored[s.key]], [s EXCEPT !.pc = "create"]} :
            Goto(t, r)
        BY <2>6 DEF Load
    <3>2. s.pc = "load" /\ UNCHANGED lru
        BY <2>6 DEF Load
    <3>3. Clear(r, k)
        BY <2>0, <3>1, <3>2 DEF Clear, TaskState
    <3> QED BY <1>4, <1>8, <3>1, <3>2, <3>3
  <2>7. CASE Create(t)
    <3>1. Goto(t, [s EXCEPT !.pc = "cache", !.snap = {}]) /\ s.pc = "create" /\ UNCHANGED lru
        BY <2>7 DEF Create
    <3>2. Clear([s EXCEPT !.pc = "cache", !.snap = {}], k)
        BY <2>0, <3>1 DEF Clear, TaskState
    <3> QED BY <1>4, <1>8, <3>1, <3>2
  <2>8. CASE CacheInsert(t)
    <3>1. PICK a \in Arcs, h \in [Arcs -> SUBSET (1..clock)] :
            Step(t, [s EXCEPT !.pc = "push", !.arc = a, !.snap = {}],
                 [cache EXCEPT ![s.key] = a], h)
        BY <2>8, CacheInsertProperties
    <3>2. s.pc = "cache" /\ s.key # k /\ UNCHANGED lru
        BY <2>0, <2>8 DEF CacheInsert, Clear
    <3>3. Clear([s EXCEPT !.pc = "push", !.arc = a, !.snap = {}], k)
        BY <2>0, <3>2 DEF Clear, TaskState
    <3>4. [cache EXCEPT ![s.key] = a][k] = None
        BY <1>1, <1>8, <3>2
    <3> QED BY <1>3, <1>8, <3>1, <3>2, <3>3, <3>4
  <2>9. CASE Push(t)
    <3>1. PICK added \in SUBSET {clock + 1}, kept \in SUBSET (1..clock'), r \in TaskState :
            /\ r = [s EXCEPT !.arc = None,
                             !.pc = IF s.stage = "user" THEN "model" ELSE "upsert",
                             !.snap = IF s.stage = "user" THEN {} ELSE kept,
                             !.answer = IF s.stage = "answer" THEN clock' ELSE 0]
            /\ Step(t, r, cache, [heap EXCEPT ![s.arc] = kept])
        BY <2>9, PushProperties
    <3>2. s.pc = "push" /\ UNCHANGED lru
        BY <2>9 DEF Push
    <3>3. r.key = s.key /\ r.evict = s.evict
        BY <2>0, <3>1 DEF TaskState
    <3>4. Clear(r, k)
        BY <2>0, <3>2, <3>3 DEF Clear
    <3> QED BY <1>3, <1>8, <3>1, <3>2, <3>4
  <2>10. CASE Model(t)
    <3>1. PICK r \in {[s EXCEPT !.stage = "answer", !.pc = "touch"],
                      [s EXCEPT !.stage = "persist", !.pc = "touch"], Failed} : Goto(t, r)
        BY <2>10 DEF Model
    <3>2. s.pc = "model" /\ UNCHANGED lru
        BY <2>10 DEF Model
    <3>3. Clear(r, k)
        BY <1>5, <2>0, <3>1, <3>2 DEF Clear, TaskState
    <3> QED BY <1>4, <1>8, <3>1, <3>2, <3>3
  <2> QED BY <1>8, <2>1, <2>2, <2>3, <2>4, <2>5, <2>6, <2>7, <2>8, <2>9, <2>10 DEF Advance
<1>9. ASSUME NEW t \in Turns, Advance(t) PROVE Still
  <2>1. UNCHANGED resetVars
      BY <1>9 DEF Advance, Touch, Snapshot, Upsert, Insert, Count, Load, Create, CacheInsert,
                  Push, Model
  <2> QED BY <1>2, <1>8, <1>9, <2>1
<1>10. ASSUME NEW t \in Turns, StatementFails(t) PROVE Still
  <2>1. Quiet
      BY <1>2, <1>10 DEF StatementFails
  <2>2. CASE Goto(t, Failed) /\ UNCHANGED lru
      BY <1>4, <1>5, <2>1, <2>2
  <2> QED BY <1>6, <1>7, <1>10, <2>1, <2>2 DEF StatementFails
<1>11. ASSUME NEW t \in Turns, NEW l \in Keys, NEW kind \in {"streaming", "channel"},
              Send(t, l, kind)
       PROVE  Still
  <2> DEFINE s == task[t]
             r == [s EXCEPT !.key = l, !.kind = kind, !.pc = "touch"]
  <2>1. resetting = k /\ quietReset /\ l # k
      BY <1>11 DEF Send, NoteReset
  <2>2. Quiet /\ UNCHANGED lru /\ Goto(t, r)
      BY <1>11, <2>1 DEF QuietInv, Send
  <2>3. s \in TaskState /\ s.evict = <<>>
      BY <1>11 DEF Typed, MemTyped, Fits, Send
  <2>4. r.key = l /\ r.evict = <<>>
      BY <2>3 DEF TaskState
  <2>5. Clear(r, k)
      BY <2>1, <2>4 DEF Clear, Contains
  <2> HIDE DEF r
  <2> QED BY <1>4, <2>2, <2>5
<1>12. ASSUME NEW l \in Keys, DeleteThread(l) PROVE Still
    BY <1>2, <1>12 DEF DeleteThread, memVars
<1>13. ASSUME NEW l \in Keys, ResetBegin(l) PROVE Still
  <2>1. l = k /\ ~Involved(k) /\ task' = task
      BY <1>13 DEF ResetBegin
  <2>2. cache'[k] = None
      BY <1>1, <1>13, <2>1 DEF ResetBegin
  <2>3. \A t \in Turns : Clear(task'[t], k)
      BY <2>1 DEF Involved, Running, Clear
  <2>4. lru' = ShiftRemove(lru, k) /\ lru \in Seq(Keys) /\ IsInjective(lru)
      BY <1>13, <2>1 DEF ResetBegin, Typed, RestTyped
  <2>5. ~Contains(lru', k)
      BY <2>4, ShiftRemoveProperties DEF Contains
  <2> QED BY <2>2, <2>3, <2>5
<1>14. CASE ResetDelete
    BY <1>14 DEF ResetDelete
<1>15. CASE UNCHANGED vars
    BY <1>2, <1>15 DEF vars, memVars
<1> QED BY <1>9, <1>10, <1>11, <1>12, <1>13, <1>14, <1>15 DEF Next
\* A session in memory that nobody refers to is empty.
HeapUsed ==
    \A a \in Arcs : heap[a] # {} =>
        (\E k \in Keys : cache[k] = a) \/ (\E t \in Turns : task[t].arc = a)

LEMMA HeapUsedNext == HeapUsed /\ [Next]_vars => HeapUsed'
<1> SUFFICES ASSUME HeapUsed, [Next]_vars PROVE HeapUsed'
    OBVIOUS
<1>1. ASSUME NEW t \in Turns, NEW s, NEW c, NEW h, Step(t, s, c, h) PROVE HeapUsed'
    BY <1>1 DEF Step, Dropped, HeapUsed
<1>2. ASSUME NEW t \in Turns, NEW s, Goto(t, s) PROVE HeapUsed'
    BY <1>1, <1>2 DEF Goto
<1>3. ASSUME NEW t \in Turns, Saved(t) \/ SaveFailed(t) PROVE HeapUsed'
    BY <1>1, <1>2, <1>3 DEF Saved, SaveFailed
<1>4. ASSUME NEW t \in Turns, Advance(t) \/ StatementFails(t) PROVE HeapUsed'
  <2>1. CASE Touch(t) \/ Snapshot(t) \/ Upsert(t) \/ Load(t) \/ Create(t) \/ Model(t)
      BY <1>2, <2>1 DEF Touch, Snapshot, Upsert, Load, Create, Model
  <2>2. CASE Insert(t) \/ Count(t) \/ StatementFails(t)
      BY <1>2, <1>3, <2>2 DEF Insert, Count, StatementFails
  <2>3. CASE CacheInsert(t) \/ Push(t)
      BY <1>1, <2>3 DEF CacheInsert, Push
  <2> QED BY <1>4, <2>1, <2>2, <2>3 DEF Advance
<1>5. ASSUME NEW t \in Turns, NEW k \in Keys, NEW kind, Send(t, k, kind) PROVE HeapUsed'
    BY <1>2, <1>5 DEF Send
<1>6. ASSUME NEW k \in Keys, DeleteThread(k) PROVE HeapUsed'
    BY <1>6 DEF DeleteThread, memVars, HeapUsed
<1>7. ASSUME NEW k \in Keys, ResetBegin(k) PROVE HeapUsed'
    BY <1>7 DEF ResetBegin, Dropped, HeapUsed
<1>8. CASE ResetDelete
    BY <1>8 DEF ResetDelete, memVars, HeapUsed
<1>9. CASE UNCHANGED vars
    BY <1>9 DEF vars, memVars, HeapUsed
<1> QED BY <1>4, <1>5, <1>6, <1>7, <1>8, <1>9 DEF Next

\* The messages of k that no quiet /reset has deleted.
Pure(k) == log[k] \ final

\* Every message is of one conversation, and wherever a session or a clone of it
\* is, there are messages of its own conversation only, and none that is final.
OwnInv ==
    /\ \A k \in Keys : stored[k] \subseteq Pure(k)
    /\ \A a \in Arcs : heap[a] \subseteq Pure(a[1])
    /\ \A t \in Turns : \A k \in Keys : Target(task[t]) = k => task[t].snap \subseteq Pure(k)
    /\ \A k, l \in Keys : k # l => log[k] \cap log[l] = {}

ArcKey == \A a \in Arcs : a[1] \in Keys
LEMMA ArcKeys == ArcKey
BY DEF Arcs, ArcKey

\* A step of a turn, given the sessions in memory and the clone it leaves.
LEMMA OwnStep ==
    ASSUME Typed, OwnInv, NEW t \in Turns, NEW s, NEW c, NEW h, Step(t, s, c, h),
           UNCHANGED final,
           \A k \in Keys : log[k] \subseteq log'[k] /\ stored'[k] \subseteq Pure(k)',
           \A k, l \in Keys : k # l => log'[k] \cap log'[l] = {},
           \A a \in Arcs : h[a] \subseteq Pure(a[1])',
           \A k \in Keys : Target(s) = k => s.snap \subseteq Pure(k)'
    PROVE  OwnInv'
<1>1. \A a \in Arcs : heap'[a] \subseteq h[a]
    BY DEF Step, Dropped
<1>2. \A a \in Arcs : heap'[a] \subseteq Pure(a[1])'
    BY <1>1
<1>3. DOMAIN task = Turns /\ task'[t] = s /\ \A u \in Turns \ {t} : task'[u] = task[u]
    BY DEF Typed, MemTyped, Step
<1>4. ASSUME NEW u \in Turns, NEW k \in Keys, Target(task'[u]) = k PROVE task'[u].snap \subseteq Pure(k)'
  <2>1. CASE u = t
      BY <1>3, <1>4, <2>1
  <2>2. CASE u # t
    <3>1. task[u].snap \subseteq Pure(k)
        BY <1>3, <1>4, <2>2 DEF OwnInv
    <3> QED BY <1>3, <2>2, <3>1 DEF Pure
  <2> QED BY <2>1, <2>2
<1>5. \A u \in Turns : \A k \in Keys : Target(task[u])' = k => (task[u].snap)' \subseteq Pure(k)'
    BY <1>4 DEF Target
<1> QED BY <1>2, <1>5 DEF OwnInv

LEMMA OwnGoto ==
    ASSUME Typed, OwnInv, NEW t \in Turns, NEW s, NEW c, Step(t, s, c, heap),
           UNCHANGED <<stored, log, final>>,
           \A k \in Keys : Target(s) = k => s.snap \subseteq Pure(k)
    PROVE  OwnInv'
<1>1. PICK h \in {heap} : Step(t, s, c, h)
    OBVIOUS
<1>2. \A k \in Keys : Pure(k)' = Pure(k)
    BY DEF Pure
<1>3. \A a \in Arcs : h[a] \subseteq Pure(a[1])'
    BY <1>1, <1>2, ArcKeys DEF ArcKey, OwnInv
<1>4. \A k \in Keys : log[k] \subseteq log'[k] /\ stored'[k] \subseteq Pure(k)'
    BY <1>2 DEF OwnInv
<1>5. \A k, l \in Keys : k # l => log'[k] \cap log'[l] = {}
    BY DEF OwnInv
<1>6. \A k \in Keys : Target(s) = k => s.snap \subseteq Pure(k)'
    BY <1>2
<1> QED BY <1>1, <1>3, <1>4, <1>5, <1>6, OwnStep

\* A message that was never given out is new to every conversation.
LEMMA FreshMessage ==
    ASSUME Typed, OwnInv, NEW l \in Keys, NEW A, A \subseteq {clock + 1},
           log' = [log EXCEPT ![l] = @ \cup (stored[l] \cup A)] \/ log' = [log EXCEPT ![l] = @ \cup A],
           UNCHANGED final
    PROVE  /\ \A k \in Keys : log[k] \subseteq log'[k] /\ Pure(k) \subseteq Pure(k)'
           /\ \A k, m \in Keys : k # m => log'[k] \cap log'[m] = {}
           /\ A \subseteq Pure(l)'
<1>1. log \in [Keys -> SUBSET (1..clock)] /\ clock \in Nat /\ final \subseteq 1..clock
    BY DEF Typed, RestTyped
<1>2. stored[l] \subseteq log[l]
    BY DEF OwnInv, Pure
<1>3. log' = [log EXCEPT ![l] = @ \cup A]
    BY <1>1, <1>2
<1>4. \A k \in Keys : log'[k] = IF k = l THEN log[l] \cup A ELSE log[k]
    BY <1>1, <1>3
<1>5. \A k \in Keys : log[k] \cap A = {}
    BY <1>1
<1>6. final \cap A = {}
    BY <1>1
<1>7. \A k \in Keys : log[k] \subseteq log'[k] /\ Pure(k) \subseteq Pure(k)'
    BY <1>4 DEF Pure
<1>8. A \subseteq Pure(l)'
    BY <1>4, <1>6 DEF Pure
<1>9. ASSUME NEW k \in Keys, NEW m \in Keys, k # m PROVE log'[k] \cap log'[m] = {}
  <2>1. log[k] \cap log[m] = {}
      BY <1>9 DEF OwnInv
  <2> QED BY <1>4, <1>5, <1>9, <2>1
<1> QED BY <1>7, <1>8, <1>9

LEMMA OwnSaved ==
    ASSUME Typed, OwnInv, NEW t \in Turns, task[t].pc = "count", Saved(t), UNCHANGED final,
           \A k \in Keys : log[k] \subseteq log'[k] /\ stored'[k] \subseteq Pure(k)',
           \A k, l \in Keys : k # l => log'[k] \cap log'[l] = {}
    PROVE  OwnInv'
<1> DEFINE s == task[t]
<1>1. s \in TaskState /\ s.key \in Keys /\ s.arc = None
    BY DEF Typed, MemTyped, Fits
<1>2. PICK r \in {Answered(s), Failed, NextVictim(s)},
           c \in {cache, [cache EXCEPT ![Head(s.evict)] = None]}, h \in {heap} :
        Step(t, r, c, h) /\ r.snap = {}
  <2>1. CASE s.evict = <<>>
    <3>1. Answered(s).snap = {} /\ Failed.snap = {}
        BY DEF Answered, Failed, Fresh
    <3> QED BY <2>1, <3>1 DEF Saved, Goto
  <2>2. CASE s.evict # <<>>
    <3>1. NextVictim(s).snap = {}
        BY <1>1, <2>2, NextVictimProperties
    <3> QED BY <2>2, <3>1 DEF Saved
  <2> QED BY <2>1, <2>2
<1>3. \A a \in Arcs : h[a] \subseteq Pure(a[1])'
  <2>1. \A k \in Keys : Pure(k) \subseteq Pure(k)'
      BY DEF Pure
  <2> QED BY <1>2, <2>1, ArcKeys DEF ArcKey, OwnInv
<1> QED BY <1>2, <1>3, OwnStep

LEMMA OwnSaveFailed ==
    ASSUME Typed, OwnInv, NEW t \in Turns, task[t].pc \in {"upsert", "insert"}, SaveFailed(t),
           UNCHANGED <<stored, log, final>>
    PROVE  OwnInv'
<1> DEFINE s == task[t]
<1>1. s \in TaskState /\ s.key \in Keys /\ s.arc = None
    BY DEF Typed, MemTyped, Fits
<1>2. CASE Goto(t, Failed)
  <2>1. PICK r \in {Failed}, c \in {cache} : Step(t, r, c, heap)
      BY <1>2 DEF Goto
  <2>2. r.snap = {}
      BY <2>1 DEF Failed, Fresh
  <2> QED BY <2>1, <2>2, OwnGoto
<1>3. CASE Goto(t, [s EXCEPT !.tries = @ + 1, !.pc = "upsert"])
  <2>1. PICK r \in {[s EXCEPT !.tries = @ + 1, !.pc = "upsert"]}, c \in {cache} : Step(t, r, c, heap)
      BY <1>3 DEF Goto
  <2>2. r.snap = s.snap /\ Target(r) = Target(s)
      BY <1>1, <2>1 DEF Target, TaskState
  <2>3. \A k \in Keys : Target(r) = k => r.snap \subseteq Pure(k)
      BY <2>2 DEF OwnInv
  <2> QED BY <2>1, <2>3, OwnGoto
<1>4. CASE s.evict # <<>> /\ Goto(t, NextVictim(s))
  <2>1. PICK r \in {NextVictim(s)}, c \in {cache} : Step(t, r, c, heap)
      BY <1>4 DEF Goto
  <2>2. r.snap = {}
      BY <1>1, <1>4, <2>1, NextVictimProperties
  <2> QED BY <2>1, <2>2, OwnGoto
<1> QED BY <1>2, <1>3, <1>4 DEF SaveFailed
LEMMA OwnAdvance ==
    ASSUME Typed, OwnInv, NEW t \in Turns, Advance(t)
    PROVE  OwnInv'
<1> DEFINE s == task[t]
<1>1. s \in TaskState /\ Fits(s, clock)
    BY DEF Typed, MemTyped
<1>2. \A k \in Keys : Target(s) = k => s.snap \subseteq Pure(k)
    BY DEF OwnInv
<1>3. CASE Touch(t)
  <2>1. PICK r \in TaskState : Goto(t, r) /\ r.snap = {}
      BY <1>3, TouchProperties
  <2>2. PICK c \in {cache} : Step(t, r, c, heap)
      BY <2>1 DEF Goto
  <2>3. UNCHANGED <<stored, log, final>>
      BY <1>3 DEF Touch, dbVars, history
  <2> QED BY <2>1, <2>2, <2>3, OwnGoto
<1>4. CASE Snapshot(t)
  <2> DEFINE v == Head(s.evict)
  <2>1. s.pc = "snapshot" /\ s.evict # <<>> /\ s.key \in Keys /\ s.arc = None /\ v \in Keys
      BY <1>1, <1>4, TargetType DEF Snapshot, Fits
  <2>2. UNCHANGED <<stored, log, final>>
      BY <1>4 DEF Snapshot, dbVars, history
  <2>3. CASE Goto(t, NextVictim(s))
    <3>1. PICK r \in {NextVictim(s)}, c \in {cache} : Step(t, r, c, heap)
        BY <2>3 DEF Goto
    <3>2. r.snap = {}
        BY <1>1, <2>1, <3>1, NextVictimProperties
    <3> QED BY <2>2, <3>1, <3>2, OwnGoto
  <2>4. CASE cache[v] # None /\ Goto(t, [s EXCEPT !.pc = "upsert", !.snap = heap[cache[v]]])
    <3>1. PICK r \in {[s EXCEPT !.pc = "upsert", !.snap = heap[cache[v]]]}, c \in {cache} :
            Step(t, r, c, heap)
        BY <2>4 DEF Goto
    <3>2. r.snap = heap[cache[v]] /\ Target(r) = v
        BY <1>1, <2>1, <3>1 DEF Target, TaskState
    <3>3. cache[v] \in Arcs /\ cache[v][1] = v
        BY <2>1, <2>4 DEF Typed, MemTyped, CacheFits
    <3>4. \A k \in Keys : Target(r) = k => r.snap \subseteq Pure(k)
        BY <3>2, <3>3 DEF OwnInv
    <3> QED BY <2>2, <3>1, <3>4, OwnGoto
  <2> QED BY <1>4, <2>3, <2>4 DEF Snapshot
<1>5. CASE Upsert(t)
  <2>1. PICK r \in {[s EXCEPT !.pc = IF s.snap = {} THEN "count" ELSE "insert"]}, c \in {cache} :
          Step(t, r, c, heap)
      BY <1>5 DEF Upsert, Goto
  <2>2. r.snap = s.snap /\ Target(r) = Target(s)
      BY <1>1, <2>1 DEF Target, TaskState
  <2>3. UNCHANGED <<stored, log, final>>
      BY <1>5 DEF Upsert, history
  <2>4. \A k \in Keys : Target(r) = k => r.snap \subseteq Pure(k)
      BY <1>2, <2>2
  <2> QED BY <2>1, <2>3, <2>4, OwnGoto
<1>6. CASE Insert(t)
  <2>1. CASE SaveFailed(t) /\ UNCHANGED stored
      BY <1>6, <2>1, OwnSaveFailed DEF Insert
  <2>2. CASE /\ stored' = [stored EXCEPT ![Target(s)] = @ \cup s.snap]
             /\ Goto(t, [s EXCEPT !.pc = "count"])
    <3>1. PICK r \in {[s EXCEPT !.pc = "count"]}, c \in {cache}, h \in {heap} : Step(t, r, c, h)
        BY <2>2 DEF Goto
    <3>2. r.snap = s.snap /\ Target(r) = Target(s)
        BY <1>1, <3>1 DEF Target, TaskState
    <3>3. UNCHANGED <<log, final>>
        BY <1>6 DEF Insert
    <3>4. \A k \in Keys : Pure(k)' = Pure(k)
        BY <3>3 DEF Pure
    <3>5. ASSUME NEW k \in Keys PROVE stored'[k] \subseteq Pure(k)
      <4>1. stored \in [Keys -> SUBSET (1..clock)] /\ stored[k] \subseteq Pure(k)
          BY DEF Typed, RestTyped, OwnInv
      <4> HIDE DEF s
      <4> QED BY <1>2, <2>2, <4>1
    <3>6. \A a \in Arcs : h[a] \subseteq Pure(a[1])'
        BY <3>4, ArcKeys DEF ArcKey, OwnInv
    <3>7. \A k, l \in Keys : k # l => log'[k] \cap log'[l] = {}
        BY <3>3 DEF OwnInv
    <3>8. \A k \in Keys : Target(r) = k => r.snap \subseteq Pure(k)'
        BY <1>2, <3>2, <3>4
    <3>9. \A k \in Keys : log[k] \subseteq log'[k] /\ stored'[k] \subseteq Pure(k)'
        BY <3>3, <3>4, <3>5
    <3> QED BY <3>1, <3>3, <3>6, <3>7, <3>8, <3>9, OwnStep
  <2> QED BY <1>6, <2>1, <2>2 DEF Insert
<1>7. CASE Count(t)
  <2> DEFINE l == Target(s)
  <2>1. PICK added \in SUBSET {clock + 1}, kept \in SUBSET (1..clock') :
          /\ l \in Keys
          /\ kept \subseteq stored[l] \cup added
          /\ stored' = [stored EXCEPT ![l] = kept]
          /\ log' = [log EXCEPT ![l] = @ \cup (stored[l] \cup added)]
          /\ task[t].pc = "count" /\ Saved(t)
      BY <1>7, CountProperties
  <2>2. PICK m \in Keys : m = l
      BY <2>1
  <2>3. UNCHANGED final
      BY <1>7 DEF Count
  <2>4. /\ \A k \in Keys : log[k] \subseteq log'[k] /\ Pure(k) \subseteq Pure(k)'
        /\ \A j, k \in Keys : j # k => log'[j] \cap log'[k] = {}
        /\ added \subseteq Pure(m)'
    <3>1. log' = [log EXCEPT ![m] = @ \cup (stored[m] \cup added)]
        BY <2>1, <2>2
    <3> QED BY <2>3, <3>1, FreshMessage
  <2>5. ASSUME NEW k \in Keys PROVE stored'[k] \subseteq Pure(k)'
    <3>1. stored[k] \subseteq Pure(k) /\ stored \in [Keys -> SUBSET (1..clock)]
        BY DEF Typed, RestTyped, OwnInv
    <3>2. CASE k = m
      <4>1. stored'[m] = kept /\ kept \subseteq stored[m] \cup added
          BY <2>1, <2>2, <3>1
      <4>2. stored[m] \subseteq Pure(m) /\ Pure(m) \subseteq Pure(m)' /\ added \subseteq Pure(m)'
          BY <2>4, <3>1, <3>2
      <4> QED BY <4>1, <4>2, <3>2
    <3>3. CASE k # m
        BY <2>1, <2>2, <2>4, <3>1, <3>3
    <3> QED BY <3>2, <3>3
  <2> QED BY <2>1, <2>3, <2>4, <2>5, OwnSaved
<1>8. CASE Load(t)
  <2>1. s.pc = "load" /\ s.key \in Keys /\ s.snap = {} /\ s.evict = <<>>
      BY <1>1, <1>8 DEF Load, Fits
  <2>2. PICK r \in {[s EXCEPT !.pc = "cache", !.snap = stored[s.key]], [s EXCEPT !.pc = "create"]},
             c \in {cache} : Step(t, r, c, heap)
      BY <1>8 DEF Load, Goto
  <2>3. r.snap \subseteq stored[s.key] /\ Target(r) = s.key
      BY <1>1, <2>1, <2>2 DEF Target, TaskState
  <2>4. UNCHANGED <<stored, log, final>>
      BY <1>8 DEF Load, dbVars, history
  <2>5. \A k \in Keys : Target(r) = k => r.snap \subseteq Pure(k)
      BY <2>3 DEF OwnInv
  <2> QED BY <2>2, <2>4, <2>5, OwnGoto
<1>9. CASE Create(t)
  <2>1. PICK r \in {[s EXCEPT !.pc = "cache", !.snap = {}]}, c \in {cache} : Step(t, r, c, heap)
      BY <1>9 DEF Create, Goto
  <2>2. r.snap = {}
      BY <1>1, <2>1 DEF TaskState
  <2>3. UNCHANGED <<stored, log, final>>
      BY <1>9 DEF Create, history
  <2> QED BY <2>1, <2>2, <2>3, OwnGoto
<1>10. CASE CacheInsert(t)
  <2>1. PICK a \in Arcs, h \in [Arcs -> SUBSET (1..clock)] :
          /\ a[1] = s.key
          /\ cache[s.key] # None => a = cache[s.key] /\ h = heap
          /\ cache[s.key] = None => h = [heap EXCEPT ![a] = s.snap]
          /\ Step(t, [s EXCEPT !.pc = "push", !.arc = a, !.snap = {}],
                  [cache EXCEPT ![s.key] = a], h)
      BY <1>10, CacheInsertProperties
  <2>2. PICK r \in {[s EXCEPT !.pc = "push", !.arc = a, !.snap = {}]},
             c \in {[cache EXCEPT ![s.key] = a]} : Step(t, r, c, h)
      BY <2>1
  <2>3. r.snap = {}
      BY <1>1, <2>2 DEF TaskState
  <2>4. UNCHANGED <<stored, log, final>>
      BY <1>10 DEF CacheInsert, dbVars, history
  <2>5. \A k \in Keys : Pure(k)' = Pure(k)
      BY <2>4 DEF Pure
  <2>6. s.key \in Keys /\ Target(s) = s.key
      BY <1>10, CacheInsertProperties DEF Target
  <2>7. s.snap \subseteq Pure(s.key)
      BY <1>2, <2>6
  <2>8. ASSUME NEW b \in Arcs PROVE h[b] \subseteq Pure(b[1])
    <3>1. heap[b] \subseteq Pure(b[1]) /\ heap \in [Arcs -> SUBSET (1..clock)]
        BY DEF Typed, MemTyped, OwnInv
    <3> HIDE DEF s
    <3> QED BY <2>1, <2>7, <3>1
  <2>9. \A b \in Arcs : h[b] \subseteq Pure(b[1])'
      BY <2>5, <2>8, ArcKeys DEF ArcKey
  <2>10. \A k \in Keys : log[k] \subseteq log'[k] /\ stored'[k] \subseteq Pure(k)'
      BY <2>4, <2>5 DEF OwnInv
  <2>11. \A k, l \in Keys : k # l => log'[k] \cap log'[l] = {}
      BY <2>4 DEF OwnInv
  <2>12. PICK q, d : Step(t, q, d, h) /\ q.snap = {}
      BY <2>2, <2>3
  <2>13. \A k \in Keys : Target(q) = k => q.snap \subseteq Pure(k)'
      BY <2>12
  <2>14. UNCHANGED final
      BY <2>4
  <2> HIDE DEF s
  <2> QED BY <2>9, <2>10, <2>11, <2>12, <2>13, <2>14, OwnStep
<1>11. CASE Push(t)
  <2>1. PICK added \in SUBSET {clock + 1}, kept \in SUBSET (1..clock'), r \in TaskState :
          /\ r = [s EXCEPT !.arc = None,
                           !.pc = IF s.stage = "user" THEN "model" ELSE "upsert",
                           !.snap = IF s.stage = "user" THEN {} ELSE kept,
                           !.answer = IF s.stage = "answer" THEN clock' ELSE 0]
          /\ s.key \in Keys /\ s.evict = <<>>
          /\ s.arc \in Arcs /\ s.arc[1] = s.key
          /\ kept \subseteq heap[s.arc] \cup added
          /\ log' = [log EXCEPT ![s.key] = @ \cup added]
          /\ Step(t, r, cache, [heap EXCEPT ![s.arc] = kept])
      BY <1>11, PushProperties
  <2>2. PICK c \in {cache}, h \in {[heap EXCEPT ![s.arc] = kept]}, l \in Keys :
          Step(t, r, c, h) /\ l = s.key
      BY <2>1
  <2>3. r.snap \subseteq kept /\ Target(r) = l
      BY <1>1, <2>1, <2>2 DEF Target, TaskState
  <2>4. UNCHANGED <<stored, final>>
      BY <1>11 DEF Push, dbVars
  <2>5. /\ \A k \in Keys : log[k] \subseteq log'[k] /\ Pure(k) \subseteq Pure(k)'
        /\ \A j, k \in Keys : j # k => log'[j] \cap log'[k] = {}
        /\ added \subseteq Pure(l)'
    <3>1. log' = [log EXCEPT ![l] = @ \cup added]
        BY <2>1, <2>2
    <3> QED BY <2>4, <3>1, FreshMessage
  <2>6. kept \subseteq Pure(l)'
    <3>1. heap[s.arc] \subseteq Pure(l)
        BY <2>1, <2>2 DEF OwnInv
    <3> QED BY <2>1, <2>5, <3>1
  <2>7. ASSUME NEW b \in Arcs PROVE h[b] \subseteq Pure(b[1])'
    <3>1. heap \in [Arcs -> SUBSET (1..clock)]
        BY DEF Typed, MemTyped
    <3>2. CASE b = s.arc
      <4>1. h[b] = kept
          BY <2>2, <3>1, <3>2
      <4>2. b[1] = l
          BY <2>1, <2>2, <3>2
      <4> HIDE DEF s
      <4> QED BY <2>6, <4>1, <4>2
    <3>3. CASE b # s.arc
      <4>1. h[b] = heap[b]
          BY <2>2, <3>1, <3>3
      <4>2. heap[b] \subseteq Pure(b[1]) /\ b[1] \in Keys
          BY ArcKeys DEF ArcKey, OwnInv
      <4>3. PICK k \in Keys : k = b[1]
          BY <4>2
      <4> QED BY <2>5, <4>1, <4>2, <4>3
    <3> QED BY <3>2, <3>3
  <2>8. \A k \in Keys : log[k] \subseteq log'[k] /\ stored'[k] \subseteq Pure(k)'
      BY <2>4, <2>5 DEF OwnInv
  <2>9. \A k \in Keys : Target(r) = k => r.snap \subseteq Pure(k)'
      BY <2>3, <2>6
  <2> QED BY <2>2, <2>4, <2>5, <2>7, <2>8, <2>9, OwnStep
<1>12. CASE Model(t)
  <2>1. s.snap = {}
      BY <1>1, <1>12 DEF Model, Fits
  <2>2. PICK r \in {[s EXCEPT !.stage = "answer", !.pc = "touch"],
                    [s EXCEPT !.stage = "persist", !.pc = "touch"], Failed}, c \in {cache} :
          Step(t, r, c, heap)
      BY <1>12 DEF Model, Goto
  <2>3. r.snap = {}
      BY <1>1, <2>1, <2>2 DEF TaskState, Failed, Fresh
  <2>4. UNCHANGED <<stored, log, final>>
      BY <1>12 DEF Model, dbVars, history
  <2> QED BY <2>2, <2>3, <2>4, OwnGoto
<1> QED BY <1>3, <1>4, <1>5, <1>6, <1>7, <1>8, <1>9, <1>10, <1>11, <1>12 DEF Advance
\* The two steps of /reset, and the deletion of a thread.
LEMMA OwnDeletion ==
    /\ \A l \in Keys : Typed /\ OwnInv /\ (DeleteThread(l) \/ ResetBegin(l)) => OwnInv'
    /\ Typed /\ OwnInv /\ QuietInv /\ HeapUsed /\ ResetDelete => OwnInv'
<1>1. ASSUME NEW l \in Keys, Typed, OwnInv, DeleteThread(l) \/ ResetBegin(l) PROVE OwnInv'
  <2>1. /\ UNCHANGED <<task, log, final>>
        /\ \A k \in Keys : stored'[k] \subseteq stored[k]
        /\ \A a \in Arcs : heap'[a] \subseteq heap[a]
    <3>1. stored \in [Keys -> SUBSET (1..clock)]
        BY <1>1 DEF Typed, RestTyped
    <3> QED BY <1>1, <3>1 DEF DeleteThread, ResetBegin, dbVars, memVars, Dropped
  <2>2. \A k \in Keys : Pure(k)' = Pure(k)
      BY <2>1 DEF Pure
  <2>3. \A a \in Arcs : heap'[a] \subseteq Pure(a[1])'
      BY <1>1, <2>1, <2>2, ArcKeys DEF ArcKey, OwnInv
  <2>4. \A k \in Keys : stored'[k] \subseteq Pure(k)'
      BY <1>1, <2>1, <2>2 DEF OwnInv
  <2>5. \A t \in Turns : \A k \in Keys : Target(task[t])' = k => (task[t].snap)' \subseteq Pure(k)'
      BY <1>1, <2>1, <2>2 DEF OwnInv, Target
  <2>6. \A j, k \in Keys : j # k => log'[j] \cap log'[k] = {}
      BY <1>1, <2>1 DEF OwnInv
  <2> QED BY <2>3, <2>4, <2>5, <2>6 DEF OwnInv
<1>2. ASSUME Typed, OwnInv, QuietInv, HeapUsed, ResetDelete PROVE OwnInv'
  <2>1. resetting \in Keys
      BY <1>2 DEF Typed, RestTyped, ResetDelete
  <2>2. PICK l \in Keys : l = resetting
      BY <2>1
  <2>3. /\ stored' = [stored EXCEPT ![l] = {}]
        /\ final' = IF quietReset THEN final \cup stored[l] ELSE final
        /\ UNCHANGED <<cache, heap, task, log>>
      BY <1>2, <2>2 DEF ResetDelete, memVars
  <2>4. stored \in [Keys -> SUBSET (1..clock)] /\ stored[l] \subseteq log[l]
      BY <1>2 DEF Typed, RestTyped, OwnInv, Pure
  <2>5. ASSUME NEW k \in Keys, k # l PROVE Pure(k)' = Pure(k)
    <3>1. log[k] \cap stored[l] = {}
        BY <1>2, <2>4, <2>5 DEF OwnInv
    <3> QED BY <2>3, <3>1 DEF Pure
  <2>6. ASSUME NEW k \in Keys PROVE stored'[k] \subseteq Pure(k)'
    <3>1. CASE k = l
        BY <2>3, <2>4, <3>1
    <3>2. CASE k # l
        BY <1>2, <2>3, <2>4, <2>5, <3>2 DEF OwnInv
    <3> QED BY <3>1, <3>2
  <2>7. ASSUME NEW k \in Keys, NEW S, S \subseteq Pure(k), ~quietReset \/ k # l \/ S = {}
        PROVE  S \subseteq Pure(k)'
    <3>1. CASE ~quietReset
        BY <2>3, <2>7, <3>1 DEF Pure
    <3>2. CASE k # l
        BY <2>5, <2>7, <3>2
    <3> QED BY <2>7, <3>1, <3>2
  <2>8. ASSUME quietReset PROVE cache[l] = None /\ \A t \in Turns : Clear(task[t], l)
      BY <1>2, <2>2, <2>8 DEF QuietInv
  <2>9. ASSUME NEW a \in Arcs PROVE heap'[a] \subseteq Pure(a[1])'
    <3>1. PICK k \in Keys : k = a[1]
        BY ArcKeys DEF ArcKey
    <3>2. ASSUME quietReset, k = l, heap[a] # {} PROVE FALSE
      <4>1. CASE \E j \in Keys : cache[j] = a
        <5>1. PICK j \in Keys : cache[j] = a
            BY <4>1
        <5>2. j = l
            BY <1>2, <3>1, <3>2, <5>1, SessionAssumption DEF Typed, MemTyped, CacheFits
        <5> QED BY <2>8, <3>2, <5>1, <5>2, SessionAssumption
      <4>2. CASE \E t \in Turns : task[t].arc = a
        <5>1. PICK t \in Turns : task[t].arc = a
            BY <4>2
        <5>2. task[t].pc = "push" /\ task[t].key = l
            BY <1>2, <3>1, <3>2, <5>1, SessionAssumption DEF Typed, MemTyped, Fits
        <5> QED BY <2>8, <3>2, <5>2 DEF Clear
      <4> QED BY <1>2, <3>2, <4>1, <4>2 DEF HeapUsed
    <3>3. PICK S \in {heap[a]} : TRUE
        OBVIOUS
    <3>4. S \subseteq Pure(k)
        BY <1>2, <3>1 DEF OwnInv
    <3>5. S \subseteq Pure(k)'
        BY <2>7, <3>2, <3>4
    <3> QED BY <2>3, <3>1, <3>5
  <2>10. ASSUME NEW t \in Turns, NEW k \in Keys, Target(task[t]) = k
         PROVE  task[t].snap \subseteq Pure(k)'
    <3>1. ASSUME quietReset, k = l, task[t].snap # {} PROVE FALSE
      <4>1. task[t] \in TaskState /\ task[t].pc \in {"upsert", "insert", "count", "cache"}
          BY <1>2, <3>1 DEF Typed, MemTyped, Fits
      <4>2. task[t].key # l /\ ~Contains(task[t].evict, l)
          BY <2>8, <3>1, <4>1 DEF Clear
      <4>3. task[t].evict # <<>> => Contains(task[t].evict, Head(task[t].evict))
        <5>1. PICK e \in Seq(Keys) : e = task[t].evict
            BY <4>1 DEF TaskState
        <5>2. e # <<>> => Contains(e, Head(e))
          <6>1. e # <<>> => 1 \in 1..Len(e) /\ e[1] = Head(e)
              OBVIOUS
          <6> QED BY <6>1 DEF Contains
        <5> QED BY <5>1, <5>2
      <4> QED BY <2>10, <3>1, <4>2, <4>3 DEF Target
    <3>2. PICK S \in {task[t].snap} : TRUE
        OBVIOUS
    <3>3. S \subseteq Pure(k)
        BY <1>2, <2>10 DEF OwnInv
    <3>4. S \subseteq Pure(k)'
        BY <2>7, <3>1, <3>3
    <3> QED BY <3>4
  <2>11. \A t \in Turns : \A k \in Keys : Target(task[t])' = k => (task[t].snap)' \subseteq Pure(k)'
      BY <2>3, <2>10 DEF Target
  <2>12. \A j, k \in Keys : j # k => log'[j] \cap log'[k] = {}
      BY <1>2, <2>3 DEF OwnInv
  <2> QED BY <2>6, <2>9, <2>11, <2>12 DEF OwnInv
<1> QED BY <1>1, <1>2

LEMMA OwnNext == Typed /\ OwnInv /\ QuietInv /\ HeapUsed /\ [Next]_vars => OwnInv'
<1> SUFFICES ASSUME Typed, OwnInv, QuietInv, HeapUsed, [Next]_vars PROVE OwnInv'
    OBVIOUS
<1>1. ASSUME NEW t \in Turns, StatementFails(t) PROVE OwnInv'
  <2>1. UNCHANGED <<stored, log, final>>
      BY <1>1 DEF StatementFails, dbVars
  <2>2. CASE Goto(t, Failed)
    <3>1. PICK r \in {Failed}, c \in {cache} : Step(t, r, c, heap)
        BY <2>2 DEF Goto
    <3>2. r.snap = {}
        BY <3>1 DEF Failed, Fresh
    <3> QED BY <2>1, <3>1, <3>2, OwnGoto
  <2>3. CASE task[t].pc \in {"upsert", "insert"} /\ SaveFailed(t)
      BY <2>1, <2>3, OwnSaveFailed
  <2>4. CASE task[t].pc = "count" /\ Saved(t)
    <3>1. \A k \in Keys : Pure(k)' = Pure(k)
        BY <2>1 DEF Pure
    <3>2. \A k \in Keys : log[k] \subseteq log'[k] /\ stored'[k] \subseteq Pure(k)'
        BY <2>1, <3>1 DEF OwnInv
    <3>3. \A j, k \in Keys : j # k => log'[j] \cap log'[k] = {}
        BY <2>1 DEF OwnInv
    <3> QED BY <2>1, <2>4, <3>2, <3>3, OwnSaved
  <2> QED BY <1>1, <2>2, <2>3, <2>4 DEF StatementFails
<1>2. ASSUME NEW t \in Turns, NEW l \in Keys, NEW kind \in {"streaming", "channel"},
             Send(t, l, kind)
      PROVE  OwnInv'
  <2>1. PICK r \in {[task[t] EXCEPT !.key = l, !.kind = kind, !.pc = "touch"]}, c \in {cache} :
          Step(t, r, c, heap)
      BY <1>2 DEF Send, Goto
  <2>2. task[t] \in TaskState /\ task[t].snap = {}
      BY <1>2 DEF Typed, MemTyped, Fits, Send
  <2>3. r.snap = {}
      BY <2>1, <2>2 DEF TaskState
  <2>4. UNCHANGED <<stored, log, final>>
      BY <1>2 DEF Send, history
  <2> QED BY <2>1, <2>3, <2>4, OwnGoto
<1>3. CASE UNCHANGED vars
  <2>1. UNCHANGED <<stored, heap, task, log, final>>
      BY <1>3 DEF vars, dbVars, memVars, history
  <2> QED BY <2>1 DEF OwnInv, Pure, Target
<1> QED BY <1>1, <1>2, <1>3, OwnAdvance, OwnDeletion DEF Next

\* What /reset deleted while no turn worked on the conversation never comes back,
\* neither from the table nor from a session in memory: no clone, no cached session
\* and no key to evict leads back to it, and no message is ever given out twice.
THEOREM ResetCorrect == Spec => []ResetIsFinal
<1>1. Init => QuietInv /\ HeapUsed /\ OwnInv
  <2> SUFFICES ASSUME Init PROVE QuietInv /\ HeapUsed /\ OwnInv
      OBVIOUS
  <2>1. QuietInv /\ HeapUsed
      BY DEF Init, QuietInv, HeapUsed
  <2>2. PICK old \in Keys : stored = [k \in Keys |-> IF k = old THEN 1..OldMessages ELSE {}]
      BY DEF Init
  <2>3. log = stored /\ final = {} /\ heap = [a \in Arcs |-> {}] /\ \A t \in Turns : task[t].snap = {}
      BY DEF Init, Fresh
  <2>4. OwnInv
      BY <2>2, <2>3 DEF OwnInv, Pure
  <2> QED BY <2>1, <2>4
<1>2. Typed /\ OwnInv => ResetIsFinal
  <2> SUFFICES ASSUME Typed, OwnInv, NEW k \in Keys PROVE final \cap (stored[k] \cup InCache(k)) = {}
      BY DEF ResetIsFinal
  <2>1. final \cap stored[k] = {}
      BY DEF OwnInv, Pure
  <2>2. final \cap InCache(k) = {}
      BY DEF Typed, MemTyped, OwnInv, Pure, InCache
  <2> QED BY <2>1, <2>2
<1> QED BY <1>1, <1>2, QuietNext, HeapUsedNext, OwnNext, TypedCorrect, PTL DEF Spec
=============================================================================
