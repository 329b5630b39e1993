---------------------------- MODULE MCChatStreams ----------------------------
(* Two sessions and two turns, which meet in one session or next to each   *)
(* other.                                                                  *)
EXTENDS ChatStreams

CONSTANTS s1, s2, t1, t2

MCSessions == {s1, s2}
TwoTurns == {t1, t2}
=============================================================================
