--------------------------- MODULE MCChampionTrials ---------------------------
(* Two evaluations and one revert over one trial, with a fault.         *)
EXTENDS ChampionTrials

CONSTANTS t1, nightly, reforge, user

MCTrials == {t1}
MCEvaluators == {nightly, reforge}
MCUsers == {user}
MCNightly == {nightly}
MCNobody == {}
=============================================================================
