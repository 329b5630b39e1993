--------------------------- MODULE ScheduledFires ---------------------------
(***************************************************************************)
(* The scheduled_fires table: the rows FireStore and ScheduledFiresRepo    *)
(* keep, and one operator per SQL statement.  SQLite runs a statement      *)
(* atomically, so a statement is one step; everything in between two       *)
(* statements is open to the other tasks of the process and to a crash.    *)
(*                                                                         *)
(* A row's id is a fresh UUID, so an id names at most one row for ever.    *)
(* The columns (fired, firing_started_at_ms) are one status:               *)
(*   "unused"   no row with this id was ever inserted                      *)
(*   "pending"  fired = 0, firing_started_at_ms IS NULL                    *)
(*   "firing"   fired = 0, firing_started_at_ms IS NOT NULL ("in flight")  *)
(*   "fired"    fired = 1                                                  *)
(*   "deleted"  the row was removed by a cancel                            *)
(* The other columns of a row never change after its insert.               *)
(***************************************************************************)
EXTENDS Integers, FiniteSets

CONSTANTS
    FireIds,     \* the UUIDs schedule() draws from
    FireTimes,   \* the values of fire_at_ms
    Kinds,       \* the kinds of fires: "alarm", "cron_job", ...
    Refs,        \* the values of ref_id (tasks, jobs, templates...)
    Prefixes,    \* the values of dedup_prefix
    Graces,      \* the values of the payload's grace_secs
    None         \* an absent Option

ASSUME TimesAssumption == FireTimes \subseteq Nat /\ Graces \subseteq Nat

ASSUME NoneAssumption ==
    /\ None \notin FireIds /\ None \notin Refs
    /\ None \notin Prefixes /\ None \notin Graces

VARIABLES
    status,          \* [FireIds -> Status]
    spec,            \* [FireIds -> FireSpec or None]: the immutable columns
    suppressed_by    \* [FireIds -> FireIds or None]

tableVars == <<status, spec, suppressed_by>>

Policies == {"strict", "skip_if_stale", "coalesce"}

Status == {"unused", "pending", "firing", "fired", "deleted"}

\* What a producer asks for.  The payload is kept only as the two fields the
\* scheduler reads from it; either may be absent.
FireSpec == [fire_at : FireTimes, kind : Kinds, ref_id : Refs \cup {None},
             dedup_prefix : Prefixes \cup {None},
             misfire_policy : Policies \cup {None},
             grace : Graces \cup {None}]

\* An absent row is not a row.
ASSUME AbsentAssumption == None \notin FireSpec

TableTypeOK ==
    /\ status \in [FireIds -> Status]
    /\ spec \in [FireIds -> FireSpec \cup {None}]
    /\ suppressed_by \in [FireIds -> FireIds \cup {None}]

TableInit ==
    /\ status = [i \in FireIds |-> "unused"]
    /\ spec = [i \in FireIds |-> None]
    /\ suppressed_by = [i \in FireIds |-> None]

-----------------------------------------------------------------------------
(* Queries.                                                                *)

\* WHERE fired = 0.  A claimed row is still "pending" for this predicate.
Unfired(i) == status[i] \in {"pending", "firing"}

\* list_pending_up_to_ms
ListPendingUpTo(cutoff) == {i \in FireIds : Unfired(i) /\ spec[i].fire_at <= cutoff}

\* list_in_flight
ListInFlight == {i \in FireIds : status[i] = "firing"}

\* Mutant: the claim forgets fired = 0, so a row deleted or fired since the
\* listing is claimed all the same.
BeginFiringMatchesAny(i) == status[i] # "unused"

\* begin_firing's WHERE clause: does the UPDATE match the row?
BeginFiringMatches(i) == status[i] = "pending"

(* Updates.                                                                *)

\* insert: always a pending row, under an id never used before.
Insert(i, sp) ==
    /\ status[i] = "unused"
    /\ status' = [status EXCEPT ![i] = "pending"]
    /\ spec' = [spec EXCEPT ![i] = sp]
    /\ UNCHANGED suppressed_by

\* begin_firing, when it matches the row (rows_affected = 1).
BeginFiring(i) ==
    /\ status' = [status EXCEPT ![i] = "firing"]
    /\ UNCHANGED <<spec, suppressed_by>>

\* Mutant: a status no query knows.
MarkDone(i) ==
    /\ status' = [status EXCEPT ![i] = IF @ = "deleted" THEN @ ELSE "done"]
    /\ UNCHANGED <<spec, suppressed_by>>

\* mark_fired: by id alone, a no-op when the row is gone.
MarkFired(i) ==
    /\ status' = [status EXCEPT ![i] = IF @ = "deleted" THEN @ ELSE "fired"]
    /\ UNCHANGED <<spec, suppressed_by>>

\* mark_suppressed: only WHERE fired = 0.
MarkSuppressed(i, winner) ==
    /\ IF Unfired(i)
         THEN /\ status' = [status EXCEPT ![i] = "fired"]
              /\ suppressed_by' = [suppressed_by EXCEPT ![i] = winner]
         ELSE UNCHANGED <<status, suppressed_by>>
    /\ UNCHANGED spec

\* DELETE ... WHERE fired = 0 AND <row selected>.  It removes claimed rows too.
DeleteUnfired(sel) ==
    /\ status' = [i \in FireIds |-> IF i \in sel /\ Unfired(i) THEN "deleted"
                                    ELSE status[i]]
    /\ UNCHANGED <<spec, suppressed_by>>

\* cancel_by_prefix: LIKE 'p%' selects a set of the stored prefixes.
CancelByPrefix(matching) ==
    DeleteUnfired({i \in FireIds : /\ spec[i] # None
                                   /\ spec[i].dedup_prefix \in matching})

\* cancel_by_kind_ref
CancelByKindRef(kind, ref) ==
    DeleteUnfired({i \in FireIds : /\ spec[i] # None
                                   /\ spec[i].kind = kind
                                   /\ spec[i].ref_id = ref})
=============================================================================
