---------------------------- MODULE FireContract ----------------------------
(***************************************************************************)
(* What the scheduler promises a producer of fires, without the table, the *)
(* loop or the policies.  A fire is accepted once; it may be withdrawn;    *)
(* taken, it will not be given to anyone else; it is announced only after  *)
(* it was taken and at most once per boot; settled, it stays so.           *)
(*                                                                         *)
(* A cancel that comes after the fire was taken ("recalled") is too late:  *)
(* the announcement may still be made.                                     *)
(***************************************************************************)
CONSTANT FireIds

VARIABLES
    phase,      \* [FireIds -> Phases]
    heard,      \* the fires announced at least once
    heardNow    \* the fires announced in this boot

Phases == {"absent", "accepted", "taken", "settled", "withdrawn", "recalled"}

Init == /\ phase = [i \in FireIds |-> "absent"]
        /\ heard = {}
        /\ heardNow = {}

Accept(i) == /\ phase[i] = "absent"
             /\ phase' = [phase EXCEPT ![i] = "accepted"]
             /\ UNCHANGED <<heard, heardNow>>

\* A cancel removes any of the unsettled fires.
Withdraw(S) == /\ \A i \in S : phase[i] \in {"accepted", "taken"}
               /\ phase' = [i \in FireIds |->
                              IF i \notin S THEN phase[i]
                              ELSE IF phase[i] = "accepted" THEN "withdrawn"
                              ELSE "recalled"]
               /\ UNCHANGED <<heard, heardNow>>

Take(i) == /\ phase[i] = "accepted"
           /\ phase' = [phase EXCEPT ![i] = "taken"]
           /\ UNCHANGED <<heard, heardNow>>

Announce(i) == /\ phase[i] \in {"taken", "recalled"}
               /\ i \notin heardNow
               /\ heard' = heard \cup {i}
               /\ heardNow' = heardNow \cup {i}
               /\ UNCHANGED phase

Settle(i) == /\ phase[i] = "taken"
             /\ phase' = [phase EXCEPT ![i] = "settled"]
             /\ UNCHANGED <<heard, heardNow>>

Reboot == /\ heardNow' = {}
          /\ UNCHANGED <<phase, heard>>

Next == \/ \E i \in FireIds : Accept(i) \/ Take(i) \/ Announce(i) \/ Settle(i)
        \/ \E S \in SUBSET FireIds : Withdraw(S)
        \/ Reboot

Spec == Init /\ [][Next]_<<phase, heard, heardNow>>
=============================================================================
