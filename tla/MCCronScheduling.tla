-------------------------- MODULE MCCronScheduling --------------------------
(***************************************************************************)
(* Small instances of CronScheduling: a repeating job of one tick, a       *)
(* one-shot job, and a job whose expression does not parse.                *)
(***************************************************************************)
EXTENDS CronScheduling

MCTimes == 0..4
MCKinds == {"cron_job"}
MCGraces == {0}

Every(n) == [type |-> "every", arg |-> n]
At(t) == [type |-> "at", arg |-> t]

RepeatingOrOneShot == {Every(1), At(1)}
Broken == [type |-> "invalid", arg |-> 0]
RepeatingOrBroken == {Every(1), Broken}
=============================================================================
