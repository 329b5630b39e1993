-------------------------- MODULE MCProviderFailover --------------------------
(* Two calls at a time open the circuit together, or one of them meets it  *)
(* open, resets the count the other relies on or opens it again.           *)
EXTENDS ProviderFailover

CONSTANTS c1, c2

MCCalls == {c1, c2}
=============================================================================
