--------------------------- MODULE MCSessionCache ---------------------------
(* Two conversations and a cache for one of them, so every change of the   *)
(* conversation evicts; a session left by an earlier run that one turn     *)
(* brings over the trimming and the compaction threshold.                  *)
EXTENDS SessionCache, TLC

CONSTANTS k1, k2, t1, t2

MCKeys == {k1, k2}
MCTurns == {t1, t2}

\* Neither turns nor keys have an order.
Symmetry == Permutations(MCKeys) \cup Permutations(MCTurns)
=============================================================================
