--------------------------- MODULE MCFocusDeadlines ---------------------------
(* Two calls on one task that is focused twice, with faults at any point. *)
EXTENDS FocusDeadlines

CONSTANTS t1, a, b

MCTasks == {t1}
MCCallers == {a, b}
MCWarnHours == {1, 2}
=============================================================================
