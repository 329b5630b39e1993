---------------------------- MODULE SessionCache ----------------------------
(***************************************************************************)
(* Conversations: the SessionManager's cache over the tables sessions and  *)
(* session_messages, used by turns of the agent loop that run next to each *)
(* other, by /reset and by the deletion of a thread.                       *)
(*                                                                         *)
(* A message is its timestamp: a number of the counter `clock`.  A session *)
(* in memory is the set of its messages, because both pushes and loads     *)
(* keep them in the order of time.  The Arc<Mutex<Session>> a task holds   *)
(* may outlive its place in the cache, so sessions in memory live in       *)
(* `heap` and the cache and the tasks refer to them.                       *)
(*                                                                         *)
(* A turn is one task.  Its pc is the point at which another task may run: *)
(*   "touch"    get_or_create begins                                       *)
(*   "snapshot" an evicted session is to be cloned                         *)
(*   "upsert", "insert", "count"  the statements of save, the last with the *)
(*              compaction it may ask for                                  *)
(*   "load", "create"  the statements of the slow path                     *)
(*   "cache"    entry().or_insert of what was loaded                       *)
(*   "push"     the session is in hand, to be locked                       *)
(*   "model"    the pipeline runs                                          *)
(***************************************************************************)
EXTENDS Integers, FiniteSets, SequencesExt

CONSTANTS
    Keys,          \* session keys
    Turns,         \* turns of the agent loop, one task each
    MaxCache,      \* config: conversation.session.max_cache_size
    TrimAt, TrimKeep,       \* IN_MEMORY_TRIM_THRESHOLD, IN_MEMORY_TRIM_KEEP
    CompactAt, CompactKeep, \* COMPACTION_THRESHOLD, COMPACTION_KEEP
    EvictAttempts, \* attempts to save an evicted session, 3 in the code
    OldMessages,   \* how many messages earlier runs of the program left
    MaxErrors,     \* bound: failing statements
    MaxDeletes,    \* bound: deletions of threads and resets
    None

\* Names for sessions in memory: of a key there are never more than the one
\* in the cache and those the turns hold.
Arcs == Keys \X (1..Cardinality(Turns) + 1)

ASSUME SessionAssumption ==
    /\ MaxCache \in Nat \ {0}
    /\ TrimKeep \in Nat \ {0} /\ TrimAt \in Nat /\ TrimKeep <= TrimAt
    /\ CompactKeep \in Nat \ {0} /\ CompactAt \in Nat
    /\ TrimAt <= CompactAt /\ CompactKeep <= CompactAt
    /\ EvictAttempts \in Nat \ {0}
    /\ OldMessages \in Nat /\ MaxErrors \in Nat /\ MaxDeletes \in Nat
    /\ IsFiniteSet(Turns) /\ None \notin Keys \cup Arcs

VARIABLES
    rows,      \* the keys with a row in sessions
    stored,    \* [Keys -> messages]: session_messages
    cache,     \* [Keys -> Arcs or None]: SessionManager::sessions
    lru,       \* lru_order, least recently used first
    heap,      \* [Arcs -> messages]: the sessions in memory
    task,      \* [Turns -> TaskState]
    resetting, \* the key /reset took out of the cache, or None
    clock,     \* the last timestamp given
    \* History.
    log,       \* [Keys -> messages]: all that was ever said
    removed,   \* messages deleted, compacted or trimmed away
    overtaken, \* messages added to a session while or after it was evicted
    final,     \* messages deleted by a /reset nothing overlapped
    quietReset,\* has no turn touched the key since /reset began?
    errors, deletes

dbVars == <<rows, stored>>
memVars == <<cache, lru, heap>>
history == <<log, removed, overtaken, final>>
resetVars == <<resetting, quietReset>>
bounds == <<errors, deletes>>
vars == <<dbVars, memVars, task, resetVars, clock, history, bounds>>

PCs == {"idle", "touch", "snapshot", "upsert", "insert", "count",
        "load", "create", "cache", "push", "model",
        "answered", "failed"}

TaskState == [pc : PCs, key : Keys \cup {None}, kind : {"streaming", "channel"},
              stage : {"user", "answer", "persist"}, arc : Arcs \cup {None},
              evict : Seq(Keys), snap : SUBSET Nat, tries : Nat, answer : Nat]

Fresh == [pc |-> "idle", key |-> None, kind |-> "streaming", stage |-> "user",
          arc |-> None, evict |-> <<>>, snap |-> {}, tries |-> 1, answer |-> 0]

\* The types of all variables.
TypeOK ==
    /\ rows \subseteq Keys
    /\ stored \in [Keys -> SUBSET (1..clock)]
    /\ cache \in [Keys -> Arcs \cup {None}]
    /\ lru \in Seq(Keys) /\ IsInjective(lru)
    /\ heap \in [Arcs -> SUBSET (1..clock)]
    /\ DOMAIN task = Turns /\ \A t \in Turns : task[t] \in TaskState
    /\ resetting \in Keys \cup {None}
    /\ clock \in Nat
    /\ log \in [Keys -> SUBSET (1..clock)]
    /\ UNION {removed, overtaken, final} \subseteq 1..clock
    /\ quietReset \in BOOLEAN
    /\ errors \in 0..MaxErrors /\ deletes \in 0..MaxDeletes

\* One conversation was left by an earlier run of the program.
Init ==
    /\ clock = OldMessages
    /\ \E old \in Keys :
         /\ rows = {old}
         /\ stored = [k \in Keys |-> IF k = old THEN 1..OldMessages ELSE {}]
    /\ log = stored
    /\ cache = [k \in Keys |-> None]
    /\ lru = <<>>
    /\ heap = [a \in Arcs |-> {}]
    /\ task = [t \in Turns |-> Fresh]
    /\ resetting = None /\ quietReset = FALSE
    /\ removed = {} /\ overtaken = {} /\ final = {}
    /\ errors = 0 /\ deletes = 0

Failed == [Fresh EXCEPT !.pc = "failed"]

Answered(s) == [Fresh EXCEPT !.pc = "answered", !.key = s.key, !.answer = s.answer]

Running(t) == task[t].pc \notin {"idle", "answered", "failed"}

\* The newest n messages of S.
Newest(n, S) == {m \in S : Cardinality({x \in S : x > m}) < n}

\* Session::trim_if_needed
Trimmed(S) == IF Cardinality(S) > TrimAt THEN Newest(TrimKeep, S) ELSE S

\* An Arc nobody refers to is dropped.
Dropped(h, c, ts) ==
    [a \in Arcs |-> IF (\E k \in Keys : c[k] = a) \/ (\E t \in Turns : ts[t].arc = a)
                    THEN h[a] ELSE {}]

\* The task moves on; cache and heap become c and h.
Step(t, s, c, h) ==
    /\ task' = [task EXCEPT ![t] = s]
    /\ cache' = c
    /\ heap' = Dropped(h, c, task')

Goto(t, s) == Step(t, s, cache, heap)

\* A turn on the key began while /reset is between its two steps.
NoteReset(k) == quietReset' = (quietReset /\ k # resetting)
-----------------------------------------------------------------------------
(* get_or_create.                                                          *)

\* Evictions are done: the fast path, or the first statement of the slow one.
Lookup(s) ==
    IF cache[s.key] # None
      THEN [s EXCEPT !.pc = "push", !.arc = cache[s.key]]
      ELSE [s EXCEPT !.pc = "load"]

\* The next key to evict, or the lookup.
NextVictim(s) ==
    LET rest == [s EXCEPT !.evict = Tail(@), !.snap = {}, !.tries = 1] IN
    IF Len(s.evict) > 1 THEN [rest EXCEPT !.pc = "snapshot"] ELSE Lookup(rest)

\* IndexMap::shift_remove, of a key that is there once or not at all.
ShiftRemove(order, k) ==
    IF Contains(order, k)
      THEN RemoveAt(order, CHOOSE i \in 1..Len(order) : order[i] = k)
      ELSE order

\* Promote the key and collect the keys to evict.
Touch(t) ==
    LET s == task[t]
        order == Append(ShiftRemove(lru, s.key), s.key)
        excess == IF Len(order) > MaxCache THEN Len(order) - MaxCache ELSE 0
    IN
    /\ s.pc = "touch"
    /\ lru' = SubSeq(order, excess + 1, Len(order))
    /\ Goto(t, IF excess = 0 THEN Lookup(s)
               ELSE [s EXCEPT !.evict = SubSeq(order, 1, excess), !.pc = "snapshot"])
    /\ UNCHANGED <<dbVars, resetVars, clock, history, bounds>>

\* Clone the evicted session under its lock; nothing to save if it is gone.
Snapshot(t) ==
    LET s == task[t]
        victim == Head(s.evict)
    IN
    /\ s.pc = "snapshot"
    /\ Goto(t, IF cache[victim] = None
               THEN NextVictim(s)
               ELSE [s EXCEPT !.pc = "upsert", !.snap = heap[cache[victim]]])
    /\ UNCHANGED <<dbVars, lru, resetVars, clock, history, bounds>>

\* get_session and get_messages
Load(t) ==
    LET s == task[t] IN
    /\ s.pc = "load"
    /\ Goto(t, IF s.key \in rows
               THEN [s EXCEPT !.pc = "cache", !.snap = stored[s.key]]
               ELSE [s EXCEPT !.pc = "create"])
    /\ UNCHANGED <<dbVars, lru, resetVars, clock, history, bounds>>

\* upsert_session of a new conversation
Create(t) ==
    LET s == task[t] IN
    /\ s.pc = "create"
    /\ rows' = rows \cup {s.key}
    /\ Goto(t, [s EXCEPT !.pc = "cache", !.snap = {}])
    /\ UNCHANGED <<stored, lru, resetVars, clock, history, bounds>>

\* entry().or_insert: another task may have been faster.
CacheInsert(t) ==
    LET s == task[t]
        free == CHOOSE n \in 1..Cardinality(Turns) + 1 :
                    \A u \in Turns : task[u].arc # <<s.key, n>>
        a == IF cache[s.key] # None THEN cache[s.key] ELSE <<s.key, free>>
        h == IF cache[s.key] # None THEN heap ELSE [heap EXCEPT ![a] = s.snap]
    IN
    /\ s.pc = "cache"
    /\ Step(t, [s EXCEPT !.pc = "push", !.arc = a, !.snap = {}],
            [cache EXCEPT ![s.key] = a], h)
    /\ UNCHANGED <<dbVars, lru, resetVars, clock, history, bounds>>
-----------------------------------------------------------------------------
(* save, of an evicted session or at the end of a turn.                    *)

Target(s) == IF s.evict # <<>> THEN Head(s.evict) ELSE s.key

\* The cached session of k.
InCache(k) == IF cache[k] = None THEN {} ELSE heap[cache[k]]

\* save returned Ok.  An evicted key leaves the map, whatever is in it by
\* now; what was pushed after the clone is lost.
Saved(t) ==
    LET s == task[t]
        victim == Head(s.evict)
    IN
    IF s.evict = <<>>
      THEN /\ Goto(t, IF s.stage = "answer" THEN Answered(s) ELSE Failed)
           /\ UNCHANGED overtaken
      ELSE /\ Step(t, NextVictim(s), [cache EXCEPT ![victim] = None], heap)
           /\ overtaken' = overtaken \cup (InCache(victim) \ s.snap)

\* Mutant: after the last attempt the session is evicted all the same.
SaveFailedEvicts(t) ==
    LET s == task[t]
        victim == Head(s.evict)
    IN
    \/ /\ s.evict = <<>>
       /\ Goto(t, Failed)
       /\ overtaken' = overtaken \cup (s.snap \ InCache(s.key))
       /\ UNCHANGED lru
    \/ /\ s.evict # <<>> /\ s.tries < EvictAttempts
       /\ Goto(t, [s EXCEPT !.tries = @ + 1, !.pc = "upsert"])
       /\ UNCHANGED <<lru, overtaken>>
    \/ /\ s.evict # <<>> /\ s.tries >= EvictAttempts
       /\ Step(t, NextVictim(s), [cache EXCEPT ![victim] = None], heap)
       /\ UNCHANGED <<lru, overtaken>>

\* Mutant: the key is put back even if another turn has put it back.
SaveFailedAgain(t) ==
    LET s == task[t]
        victim == Head(s.evict)
    IN
    \/ /\ s.evict = <<>>
       /\ Goto(t, Failed)
       /\ overtaken' = overtaken \cup (s.snap \ InCache(s.key))
       /\ UNCHANGED lru
    \/ /\ s.evict # <<>> /\ s.tries < EvictAttempts
       /\ Goto(t, [s EXCEPT !.tries = @ + 1, !.pc = "upsert"])
       /\ UNCHANGED <<lru, overtaken>>
    \/ /\ s.evict # <<>> /\ s.tries >= EvictAttempts
       /\ Goto(t, NextVictim(s))
       /\ lru' = Append(lru, victim)
       /\ UNCHANGED overtaken

\* save returned an error.  An evicted key is saved again, and kept in the
\* cache after the last attempt; at the end of a turn there is a warning.
SaveFailed(t) ==
    LET s == task[t]
        victim == Head(s.evict)
    IN
    \/ /\ s.evict = <<>>
       /\ Goto(t, Failed)
       /\ overtaken' = overtaken \cup (s.snap \ InCache(s.key))
       /\ UNCHANGED lru
    \/ /\ s.evict # <<>> /\ s.tries < EvictAttempts
       /\ Goto(t, [s EXCEPT !.tries = @ + 1, !.pc = "upsert"])
       /\ UNCHANGED <<lru, overtaken>>
    \/ /\ s.evict # <<>> /\ s.tries >= EvictAttempts
       /\ Goto(t, NextVictim(s))
       /\ lru' = IF Contains(lru, victim) THEN lru ELSE Append(lru, victim)
       /\ UNCHANGED overtaken

Upsert(t) ==
    LET s == task[t] IN
    /\ s.pc = "upsert"
    /\ rows' = rows \cup {Target(s)}
    /\ Goto(t, [s EXCEPT !.pc = IF s.snap = {} THEN "count" ELSE "insert"])
    /\ UNCHANGED <<stored, lru, resetVars, clock, history, bounds>>

\* Mutant: OR IGNORE taken to cover the missing row as well.
InsertIgnoresAll(t) ==
    LET s == task[t]
        k == Target(s)
    IN
    /\ s.pc = "insert"
    /\ stored' = [stored EXCEPT ![k] = IF k \in rows THEN @ \cup s.snap ELSE @]
    /\ Goto(t, [s EXCEPT !.pc = "count"])
    /\ UNCHANGED <<rows, lru, resetVars, clock, history, bounds>>

\* batch_add_messages: INSERT OR IGNORE, which needs the session's row.
Insert(t) ==
    LET s == task[t]
        k == Target(s)
    IN
    /\ s.pc = "insert"
    /\ \/ /\ k \in rows
          /\ stored' = [stored EXCEPT ![k] = @ \cup s.snap]
          /\ Goto(t, [s EXCEPT !.pc = "count"])
          /\ UNCHANGED <<lru, overtaken>>
       \/ /\ k \notin rows
          /\ SaveFailed(t)
          /\ UNCHANGED stored
    /\ UNCHANGED <<rows, resetVars, clock, log, removed, final, bounds>>

\* count_messages, and over the threshold the marker and compact_session.
\* A row deleted meanwhile has no messages and takes no marker.
Count(t) ==
    LET k == Target(task[t])
        full == Cardinality(stored[k]) > CompactAt
        marked == IF full THEN stored[k] \cup {clock'} ELSE stored[k]
        kept == IF full THEN Newest(CompactKeep, marked) ELSE marked
    IN
    /\ task[t].pc = "count"
    /\ clock' = IF full THEN clock + 1 ELSE clock
    /\ stored' = [stored EXCEPT ![k] = kept]
    /\ log' = [log EXCEPT ![k] = @ \cup marked]
    /\ removed' = removed \cup (marked \ kept)
    /\ Saved(t)
    /\ UNCHANGED <<rows, lru, resetVars, final, bounds>>
-----------------------------------------------------------------------------
(* Turns.                                                                  *)

ChannelTurn == \E t \in Turns : Running(t) /\ task[t].kind = "channel"

\* chat_send of the desktop, which makes sure of the row, or a message the
\* agent loop takes from a channel: one at a time, and /reset in its turn.
Send(t, k, kind) ==
    /\ task[t].pc = "idle"
    /\ kind = "channel" => ~ChannelTurn /\ resetting = None
    /\ rows' = IF kind = "streaming" THEN rows \cup {k} ELSE rows
    /\ Goto(t, [task[t] EXCEPT !.key = k, !.kind = kind, !.pc = "touch"])
    /\ NoteReset(k)
    /\ UNCHANGED <<stored, lru, resetting, clock, history, bounds>>

\* Under the session's lock: setup_session adds the user's message,
\* save_to_session the answer and takes a clone, persist_session a clone.
Push(t) ==
    LET s == task[t]
        added == IF s.stage = "persist" THEN {} ELSE {clock + 1}
        grown == heap[s.arc] \cup added
        kept == IF added = {} THEN grown ELSE Trimmed(grown)
        cached == cache[s.key] = s.arc
    IN
    /\ s.pc = "push"
    /\ clock' = clock + Cardinality(added)
    /\ log' = [log EXCEPT ![s.key] = @ \cup added]
    /\ removed' = removed \cup ((grown \ kept) \ stored[s.key])
    /\ overtaken' = IF s.stage = "user" /\ ~cached THEN overtaken \cup added ELSE overtaken
    /\ Step(t, [s EXCEPT !.arc = None,
                         !.pc = IF s.stage = "user" THEN "model" ELSE "upsert",
                         !.snap = IF s.stage = "user" THEN {} ELSE kept,
                         !.answer = IF s.stage = "answer" THEN clock' ELSE 0],
            cache, [heap EXCEPT ![s.arc] = kept])
    /\ UNCHANGED <<dbVars, lru, resetVars, final, bounds>>

\* run_pipeline has returned.  Only a streaming turn persists its failure.
Model(t) ==
    LET s == task[t] IN
    /\ s.pc = "model"
    /\ \/ Goto(t, [s EXCEPT !.stage = "answer", !.pc = "touch"])
       \/ s.kind = "streaming" /\ Goto(t, [s EXCEPT !.stage = "persist", !.pc = "touch"])
       \/ s.kind = "channel" /\ Goto(t, Failed)
    /\ UNCHANGED <<dbVars, lru, resetVars, clock, history, bounds>>

\* A statement of the turn fails.  save ignores it after the insert.
StatementFails(t) ==
    LET s == task[t] IN
    /\ errors < MaxErrors
    /\ errors' = errors + 1
    /\ \/ /\ s.pc \in {"load", "create"}
          /\ Goto(t, Failed)
          /\ UNCHANGED <<lru, overtaken>>
       \/ s.pc \in {"upsert", "insert"} /\ SaveFailed(t)
       \/ s.pc = "count" /\ Saved(t) /\ UNCHANGED lru
    /\ UNCHANGED <<dbVars, resetVars, clock, log, removed, final, deletes>>
-----------------------------------------------------------------------------
(* Deletions.                                                              *)

\* A turn works on the key, or may still write it.
Involved(k) == \E t \in Turns : Running(t) /\ (task[t].key = k \/ Contains(task[t].evict, k))

\* chat_delete_thread and the clean-up of old sessions delete in the
\* database only.
DeleteThread(k) ==
    /\ deletes < MaxDeletes /\ k \in rows
    /\ deletes' = deletes + 1
    /\ rows' = rows \ {k}
    /\ stored' = [stored EXCEPT ![k] = {}]
    /\ removed' = removed \cup stored[k]
    /\ UNCHANGED <<memVars, task, resetVars, clock, log, overtaken, final, errors>>

\* Mutant: only the order forgets the key.
ResetKeepsSession(k) ==
    /\ deletes < MaxDeletes /\ resetting = None /\ ~ChannelTurn
    /\ deletes' = deletes + 1
    /\ resetting' = k
    /\ quietReset' = ~Involved(k)
    /\ lru' = ShiftRemove(lru, k)
    /\ UNCHANGED <<dbVars, cache, heap, task, clock, history, errors>>

\* reset_session: out of the cache first,
ResetBegin(k) ==
    /\ deletes < MaxDeletes /\ resetting = None /\ ~ChannelTurn
    /\ deletes' = deletes + 1
    /\ resetting' = k
    /\ quietReset' = ~Involved(k)
    /\ cache' = [cache EXCEPT ![k] = None]
    /\ heap' = Dropped(heap, cache', task)
    /\ lru' = ShiftRemove(lru, k)
    /\ removed' = removed \cup InCache(k)
    /\ UNCHANGED <<dbVars, task, clock, log, overtaken, final, errors>>

\* then out of the database.
ResetDelete ==
    /\ resetting # None
    /\ rows' = rows \ {resetting}
    /\ stored' = [stored EXCEPT ![resetting] = {}]
    /\ removed' = removed \cup stored[resetting]
    /\ final' = IF quietReset THEN final \cup stored[resetting] ELSE final
    /\ resetting' = None /\ quietReset' = FALSE
    /\ UNCHANGED <<memVars, task, clock, log, overtaken, bounds>>

Advance(t) ==
    \/ Touch(t) \/ Snapshot(t) \/ Upsert(t) \/ Insert(t) \/ Count(t)
    \/ Load(t) \/ Create(t) \/ CacheInsert(t)
    \/ Push(t) \/ Model(t)

Next ==
    \/ \E t \in Turns : Advance(t) \/ StatementFails(t)
    \/ \E t \in Turns, k \in Keys, kind \in {"streaming", "channel"} : Send(t, k, kind)
    \/ \E k \in Keys : DeleteThread(k) \/ ResetBegin(k)
    \/ ResetDelete

Spec == Init /\ [][Next]_vars
-----------------------------------------------------------------------------
\* What memory still holds of k: the cached session and the clones being saved.
InMemory(k) ==
    InCache(k) \cup UNION {IF Running(t) /\ Target(task[t]) = k THEN task[t].snap ELSE {} :
                           t \in Turns}

\* A turn that ended with a message id, which the chat shows as saved, has
\* its answer in session_messages, unless it was deleted or compacted.
AnsweredIsStored ==
    \A t \in Turns : task[t].pc = "answered" =>
        task[t].answer \in stored[task[t].key] \cup removed

\* Nothing that was said disappears through eviction, failing statements,
\* or two turns at work on one session: it is stored, or in memory and will
\* be saved with the session, or was deleted, compacted or trimmed, or came
\* to a session that was being evicted.
LossIsExplained ==
    \A k \in Keys : log[k] \subseteq UNION {stored[k], InMemory(k), removed, overtaken}

\* "Save BEFORE removing from cache to prevent data loss": the same without
\* the last exception.
EvictionLosesNothing ==
    \A k \in Keys : log[k] \subseteq UNION {stored[k], InMemory(k), removed}

\* What /reset deleted while no turn worked on the conversation never comes
\* back, in the database or in the history given to the model.
ResetIsFinal ==
    \A k \in Keys : final \cap (stored[k] \cup InCache(k)) = {}
=============================================================================
